---- MODULE Spec2Model ----
(***************************************************************************)
(* A model of the resume / job-description matching pipeline: skill        *)
(* extraction, comparison, weighted scoring, gap analysis and learning     *)
(* path synthesis.                                                         *)
(*                                                                         *)
(* Representation.  A Python str is a sequence of one-character strings,   *)
(* so that lower(), title(), sorting and the regular expressions of the    *)
(* source are computed character by character.  A Python list is a         *)
(* sequence, a Python set a set, a dict a record.  A float that the source *)
(* rounds to two decimals is an integer number of hundredths.              *)
(***************************************************************************)
EXTENDS Integers, Sequences, FiniteSets, TLC

VARIABLES
  resume_file_text, \* the text of the resume file: ResumeParser's self.text
  jd_parser_text,   \* JDParser's self.text
  completed,        \* the requests that have finished: their inputs and results
  pc,               \* the stage the request is at
  resume_data,      \* parse_resume's result
  jd_text,          \* the job description text handed to the pipeline
  jd_data,          \* parse_job_description's result
  resume_skills,    \* SkillExtractor.extract_from_resume's result
  jd_skills,        \* SkillExtractor.extract_from_jd's result
  skill_comparison, \* SkillExtractor.compare_skills' result
  match_result,     \* calculate_match's result
  gap_analysis,     \* analyze_skill_gaps' result
  learning_path,    \* generate_recommendations' result
  float_tie_up,     \* the direction of the floating-point error at a rounding tie
  settings,         \* the tables of config/settings.py as the process holds them
  session,          \* the browser sessions of the application, each running main
  tmp_files         \* the files of the directory /tmp, by name

vars == <<pc, resume_file_text, jd_parser_text, completed, resume_data, jd_text, jd_data, resume_skills, jd_skills,
          skill_comparison, match_result, gap_analysis, learning_path,
          float_tie_up, settings, session, tmp_files>>

\* The value of a variable that no stage has assigned yet.
None == [none |-> TRUE]

----------------------------------------------------------------------------
(* Characters and strings *)

UpperLetters ==
  <<"A","B","C","D","E","F","G","H","I","J","K","L","M",
    "N","O","P","Q","R","S","T","U","V","W","X","Y","Z">>
LowerLetters ==
  <<"a","b","c","d","e","f","g","h","i","j","k","l","m",
    "n","o","p","q","r","s","t","u","v","w","x","y","z">>
DigitChars == <<"0","1","2","3","4","5","6","7","8","9">>
\* The characters outside ASCII, which a string of this module cannot hold,
\* are written by their code point: the en dash, and the three characters
\* that the date pattern of the resume parser has in its class.
EnDash == "U+2013"
ACircumflex == "U+00E2"
EuroSign == "U+20AC"
LeftQuote == "U+201C"
\* The other characters of the model, each with its code point.
OtherChars ==
  << <<"\n", 10>>, <<" ", 32>>, <<"(", 40>>, <<")", 41>>, <<"+", 43>>,
     <<",", 44>>, <<"-", 45>>, <<".", 46>>, <<"/", 47>>, <<":", 58>>,
     <<"_", 95>>, <<ACircumflex, 226>>, <<EnDash, 8211>>, <<LeftQuote, 8220>>,
     <<EuroSign, 8364>> >>

Range(f) == {f[i] : i \in DOMAIN f}
Chars == Range(UpperLetters) \cup Range(LowerLetters) \cup Range(DigitChars)
           \cup {p[1] : p \in Range(OtherChars)}
IndexIn(seq, c) == CHOOSE i \in 1..Len(seq) : seq[i] = c

\* ord(c): the code point, which orders strings when they are sorted.
OrdTable ==
  [c \in Chars |->
     IF c \in Range(UpperLetters) THEN 64 + IndexIn(UpperLetters, c)
     ELSE IF c \in Range(LowerLetters) THEN 96 + IndexIn(LowerLetters, c)
     ELSE IF c \in Range(DigitChars) THEN 47 + IndexIn(DigitChars, c)
     ELSE (CHOOSE p \in Range(OtherChars) : p[1] = c)[2]]
LowerTable ==
  [c \in Chars |->
     IF c \in Range(UpperLetters) THEN LowerLetters[IndexIn(UpperLetters, c)]
     ELSE c]
UpperTable ==
  [c \in Chars |->
     IF c \in Range(LowerLetters) THEN UpperLetters[IndexIn(LowerLetters, c)]
     ELSE c]

Digits == Range(DigitChars)
Letters == Range(UpperLetters) \cup Range(LowerLetters)
WordChars == Letters \cup Digits \cup {"_", ACircumflex}

IsDigit(c) == c \in Digits
IsLetter(c) == c \in Letters
\* \w of the re module: letters, digits and the underscore.
IsWordChar(c) == c \in WordChars
\* \s of the re module.
IsSpace(c) == c \in {" ", "\n"}

\* A str written as a string literal: the sequence of its characters.
Str(s) == [i \in 1..Len(s) |-> SubSeq(s, i, i)]

\* str.lower()
lower(s) == [i \in 1..Len(s) |-> LowerTable[s[i]]]

\* str.title(): the first letter of every run of letters in upper case, the
\* other letters in lower case.
title(s) ==
  [i \in 1..Len(s) |->
     IF i = 1 \/ ~IsLetter(s[i - 1]) THEN UpperTable[s[i]] ELSE LowerTable[s[i]]]

\* a < b for two str: lexicographic by code point.
RECURSIVE str_less(_, _)
str_less(a, b) ==
  IF b = <<>> THEN FALSE
  ELSE IF a = <<>> THEN TRUE
  ELSE IF a[1] = b[1] THEN str_less(Tail(a), Tail(b))
  ELSE OrdTable[a[1]] < OrdTable[b[1]]

\* sorted(list(S)) for a set S of str.
RECURSIVE sorted(_)
sorted(S) ==
  IF S = {} THEN <<>>
  ELSE LET m == CHOOSE x \in S : \A y \in S \ {x} : str_less(x, y)
       IN  <<m>> \o sorted(S \ {m})

\* list.sort() of a list of str (insertion into the sorted rest keeps
\* duplicates).
RECURSIVE list_sort(_)
list_sort(l) ==
  IF l = <<>> THEN <<>>
  ELSE LET rest == list_sort(Tail(l))
           k == Cardinality({i \in 1..Len(rest) : str_less(rest[i], l[1])})
       IN  SubSeq(rest, 1, k) \o <<l[1]>> \o SubSeq(rest, k + 1, Len(rest))

\* b in a, for two str: b occurs in a as a substring.
contains(a, b) ==
  \E i \in 0..(Len(a) - Len(b)) : SubSeq(a, i + 1, i + Len(b)) = b

\* min(a, b)
Min(a, b) == IF a <= b THEN a ELSE b

\* min(S) of a set of numbers.
SetMin(S) == CHOOSE x \in S : \A y \in S : x <= y

\* The ascending sequence of the elements of a set of numbers.
RECURSIVE ascending(_)
ascending(S) == IF S = {} THEN <<>> ELSE <<SetMin(S)>> \o ascending(S \ {SetMin(S)})

\* The concatenation of a sequence of sequences.
RECURSIVE Concat(_)
Concat(ss) == IF ss = <<>> THEN <<>> ELSE ss[1] \o Concat(Tail(ss))

----------------------------------------------------------------------------
(* Reference data: config/settings.py *)

SKILL_CATEGORIES ==
  << [category |-> "programming_languages",
      skills |->
        << Str("Python"), Str("Java"), Str("JavaScript"), Str("C++"),
           Str("C"), Str("Go"), Str("Rust"), Str("TypeScript"), Str("Ruby"),
           Str("PHP"), Str("Swift"), Str("Kotlin"), Str("Scala") >>],
     [category |-> "web_frameworks",
      skills |->
        << Str("React"), Str("Angular"), Str("Vue"), Str("Node.js"),
           Str("Express"), Str("Django"), Str("Flask"), Str("FastAPI"),
           Str("Spring Boot"), Str("Next.js"), Str("Svelte") >>],
     [category |-> "databases",
      skills |->
        << Str("MySQL"), Str("PostgreSQL"), Str("MongoDB"), Str("Redis"),
           Str("Cassandra"), Str("DynamoDB"), Str("SQLite"), Str("Oracle"),
           Str("SQL Server") >>],
     [category |-> "cloud_platforms",
      skills |->
        << Str("AWS"), Str("Azure"), Str("GCP"), Str("Google Cloud"),
           Str("Heroku"), Str("DigitalOcean"), Str("Firebase") >>],
     [category |-> "devops_tools",
      skills |->
        << Str("Docker"), Str("Kubernetes"), Str("Jenkins"), Str("Git"),
           Str("GitHub"), Str("GitLab"), Str("CI/CD"), Str("Terraform"),
           Str("Ansible") >>],
     [category |-> "data_science",
      skills |->
        << Str("Machine Learning"), Str("Deep Learning"), Str("TensorFlow"),
           Str("PyTorch"), Str("Scikit-learn"), Str("Pandas"), Str("NumPy"),
           Str("Data Analysis") >>],
     [category |-> "mobile",
      skills |->
        << Str("Android"), Str("iOS"), Str("React Native"), Str("Flutter"),
           Str("SwiftUI") >>],
     [category |-> "other_technical",
      skills |->
        << Str("REST API"), Str("GraphQL"), Str("Microservices"),
           Str("Agile"), Str("Scrum"), Str("Testing"), Str("Unit Testing") >>] >>

SKILL_ALIASES ==
  << [alias |-> Str("js"), canonical |-> Str("JavaScript")],
     [alias |-> Str("ts"), canonical |-> Str("TypeScript")],
     [alias |-> Str("py"), canonical |-> Str("Python")],
     [alias |-> Str("react.js"), canonical |-> Str("React")],
     [alias |-> Str("reactjs"), canonical |-> Str("React")],
     [alias |-> Str("node"), canonical |-> Str("Node.js")],
     [alias |-> Str("nodejs"), canonical |-> Str("Node.js")],
     [alias |-> Str("k8s"), canonical |-> Str("Kubernetes")],
     [alias |-> Str("aws"), canonical |-> Str("AWS")],
     [alias |-> Str("gcp"), canonical |-> Str("GCP")],
     [alias |-> Str("ml"), canonical |-> Str("Machine Learning")],
     [alias |-> Str("dl"), canonical |-> Str("Deep Learning")],
     [alias |-> Str("api"), canonical |-> Str("REST API")] >>

\* self.all_skills of SkillExtractor: the skills of every category, in order.
all_skills == Concat([i \in 1..Len(SKILL_CATEGORIES) |-> SKILL_CATEGORIES[i].skills])

SCORING_WEIGHTS ==
  [skills_match |-> 50, experience_match |-> 20,
   education_match |-> 15, semantic_similarity |-> 15]

\* The resources in the order of the dict.
LEARNING_RESOURCES ==
  << [skill |-> Str("Python"),
      resource |->
        [courses |->
           << [name |-> "Python for Everybody", platform |-> "Coursera", duration |-> "8 weeks", level |-> "Beginner"],
              [name |-> "Complete Python Bootcamp", platform |-> "Udemy", duration |-> "22 hours", level |-> "Beginner"] >>,
         practice |-> "LeetCode, HackerRank Python track"]],
     [skill |-> Str("JavaScript"),
      resource |->
        [courses |->
           << [name |-> "JavaScript - The Complete Guide", platform |-> "Udemy", duration |-> "52 hours", level |-> "Beginner"],
              [name |-> "Modern JavaScript", platform |-> "Coursera", duration |-> "6 weeks", level |-> "Intermediate"] >>,
         practice |-> "JavaScript30, FreeCodeCamp"]],
     [skill |-> Str("React"),
      resource |->
        [courses |->
           << [name |-> "React - The Complete Guide", platform |-> "Udemy", duration |-> "48 hours", level |-> "Intermediate"],
              [name |-> "Meta React Basics", platform |-> "Coursera", duration |-> "4 weeks", level |-> "Beginner"] >>,
         practice |-> "Build 5 projects, contribute to open source"]],
     [skill |-> Str("Node.js"),
      resource |->
        [courses |->
           << [name |-> "Node.js Developer Course", platform |-> "Udemy", duration |-> "35 hours", level |-> "Intermediate"],
              [name |-> "Server-side JavaScript with Node", platform |-> "Coursera", duration |-> "4 weeks", level |-> "Intermediate"] >>,
         practice |-> "Build REST APIs, microservices projects"]],
     [skill |-> Str("AWS"),
      resource |->
        [courses |->
           << [name |-> "AWS Certified Solutions Architect", platform |-> "Udemy", duration |-> "24 hours", level |-> "Intermediate"],
              [name |-> "AWS Fundamentals", platform |-> "Coursera", duration |-> "4 weeks", level |-> "Beginner"] >>,
         practice |-> "AWS Free Tier hands-on labs"]],
     [skill |-> Str("Machine Learning"),
      resource |->
        [courses |->
           << [name |-> "Machine Learning by Andrew Ng", platform |-> "Coursera", duration |-> "11 weeks", level |-> "Intermediate"],
              [name |-> "Machine Learning A-Z", platform |-> "Udemy", duration |-> "44 hours", level |-> "Beginner"] >>,
         practice |-> "Kaggle competitions, personal ML projects"]],
     [skill |-> Str("Docker"),
      resource |->
        [courses |->
           << [name |-> "Docker Mastery", platform |-> "Udemy", duration |-> "19 hours", level |-> "Beginner"],
              [name |-> "Docker and Kubernetes", platform |-> "Coursera", duration |-> "4 weeks", level |-> "Intermediate"] >>,
         practice |-> "Containerize your projects"]],
     [skill |-> Str("SQL"),
      resource |->
        [courses |->
           << [name |-> "The Complete SQL Bootcamp", platform |-> "Udemy", duration |-> "9 hours", level |-> "Beginner"],
              [name |-> "SQL for Data Science", platform |-> "Coursera", duration |-> "4 weeks", level |-> "Beginner"] >>,
         practice |-> "SQLZoo, LeetCode database problems"]] >>

DEFAULT_LEARNING_RESOURCE ==
  [courses |->
     << [name |-> "Search on Udemy", platform |-> "Udemy", duration |-> "Varies", level |-> "All levels"],
        [name |-> "Search on Coursera", platform |-> "Coursera", duration |-> "Varies", level |-> "All levels"] >>,
   practice |-> "YouTube tutorials, official documentation"]

\* The tables of the module config.settings as its source defines them.
ReferenceData ==
  [SKILL_CATEGORIES |-> SKILL_CATEGORIES,
   SKILL_ALIASES |-> SKILL_ALIASES,
   LEARNING_RESOURCES |-> LEARNING_RESOURCES,
   DEFAULT_LEARNING_RESOURCE |-> DEFAULT_LEARNING_RESOURCE,
   SCORING_WEIGHTS |-> SCORING_WEIGHTS]

----------------------------------------------------------------------------
(* Numbers *)

\* round(num / den, 0) for num >= 0, den > 0: to the nearest integer, a tie to
\* the even one, as Python's round does on a value it holds exactly.
RoundHalfEven(num, den) ==
  LET q == num \div den
      r == num % den
  IN  IF 2 * r < den THEN q
      ELSE IF 2 * r > den THEN q + 1
      ELSE IF q % 2 = 0 THEN q ELSE q + 1

----------------------------------------------------------------------------
(* Iteration of a Python set *)

\* A set of str is iterated in an order that depends on the hashes of its
\* members, which differ from one process to the next.  The order is one of
\* the rotations of the ascending or of the descending order, chosen by the
\* hash seed.
MaxSeed == 6
HashSeeds == 0..(MaxSeed - 1)

Reverse(l) == [i \in 1..Len(l) |-> l[Len(l) + 1 - i]]

set_iter(S, seed) ==
  LET base == IF seed % 2 = 0 THEN sorted(S) ELSE Reverse(sorted(S))
      n == Len(base)
      k == IF n = 0 THEN 0 ELSE (seed \div 2) % n
  IN  SubSeq(base, k + 1, n) \o SubSeq(base, 1, k)

----------------------------------------------------------------------------
(* Regular expressions of the skill search *)

\* \b at offset p of text (between text[p] and text[p + 1]): exactly one of the
\* two sides is a word character; the outside of the text is not.
word_boundary(text, p) ==
  LET before == p >= 1 /\ p <= Len(text) /\ IsWordChar(text[p])
      after == p + 1 >= 1 /\ p + 1 <= Len(text) /\ IsWordChar(text[p + 1])
  IN  before # after

\* The pattern matches at offset i of text, ignoring case, with no \b.
match_at(word, text, i) ==
  /\ i + Len(word) <= Len(text)
  /\ \A k \in 1..Len(word) : LowerTable[text[i + k]] = LowerTable[word[k]]

search_substring(word, text) ==
  \E i \in 0..(Len(text) - Len(word)) : match_at(word, text, i)

\* re.search(r'\b' + re.escape(word) + r'\b', text, re.IGNORECASE)
search_word(word, text) ==
  \E i \in 0..(Len(text) - Len(word)) :
    /\ match_at(word, text, i)
    /\ word_boundary(text, i)
    /\ word_boundary(text, i + Len(word))

----------------------------------------------------------------------------
(* SkillExtractor.extract_from_text *)

\* found_skills: the skills of the taxonomy whose name is found in the text.
found_skills(text) == {skill \in Range(all_skills) : search_word(skill, text)}

normalize_aliases_only(skills, text) ==
  {SKILL_ALIASES[i].canonical :
     i \in {j \in 1..Len(SKILL_ALIASES) : search_word(SKILL_ALIASES[j].alias, text)}}

_normalize_skills(skills, text) ==
  skills \cup
    {SKILL_ALIASES[i].canonical :
       i \in {j \in 1..Len(SKILL_ALIASES) : search_word(SKILL_ALIASES[j].alias, text)}}

CategoryNames == {SKILL_CATEGORIES[i].category : i \in 1..Len(SKILL_CATEGORIES)}

\* The bucket a skill is appended to: the first category that lists it, else
\* other_technical.
category_of(skill) ==
  LET hits == {i \in 1..Len(SKILL_CATEGORIES) : skill \in Range(SKILL_CATEGORIES[i].skills)}
  IN  IF hits = {} THEN "other_technical"
      ELSE SKILL_CATEGORIES[CHOOSE i \in hits : \A j \in hits : i <= j].category

bucket_unsorted(skills_iter, category) ==
  SelectSeq(skills_iter, LAMBDA s : category_of(s) = category)

\* categorized[category] after the loop and its sort.
bucket(skills_iter, category) ==
  list_sort(SelectSeq(skills_iter, LAMBDA s : category_of(s) = category))

\* _categorize_skills with list(skills) in place of sorted(list(skills)).
categorize_skills_all_unsorted(skills_iter) ==
  [key \in CategoryNames \cup {"other_technical", "all_skills"} |->
     IF key = "all_skills" THEN skills_iter
     ELSE bucket(skills_iter, key)]

\* skills_iter is the set of skills in the order the loop iterates it.
_categorize_skills(skills_iter) ==
  [key \in CategoryNames \cup {"other_technical", "all_skills"} |->
     IF key = "all_skills" THEN sorted(Range(skills_iter))
     ELSE bucket(skills_iter, key)]

\* An in-place operation of a stage on a list: the object, by the name that
\* the code gives it and the key under that name, the method and its
\* argument.
in_place(name, key, op, value) == [object |-> <<name, key>>, op |-> op, value |-> value]

\* A list after list.append(value), list.extend(value) or list.sort().
list_after(l, op, value) ==
  CASE op = "append" -> Append(l, value)
    [] op = "extend" -> l \o value
    [] op = "sort" -> list_sort(l)

\* The tables after one in-place operation: it changes them when its object
\* is a list of SKILL_CATEGORIES or the courses of a resource of
\* LEARNING_RESOURCES; every other object is one that the stage has created.
tables_after_one(tables, w) ==
  IF w.object[1] = "SKILL_CATEGORIES"
    THEN [tables EXCEPT !.SKILL_CATEGORIES =
            [i \in 1..Len(tables.SKILL_CATEGORIES) |->
               LET entry == tables.SKILL_CATEGORIES[i]
               IN  IF entry.category = w.object[2]
                     THEN [entry EXCEPT !.skills = list_after(entry.skills, w.op, w.value)]
                     ELSE entry]]
  ELSE IF w.object[1] = "LEARNING_RESOURCES"
    THEN [tables EXCEPT !.LEARNING_RESOURCES =
            [i \in 1..Len(tables.LEARNING_RESOURCES) |->
               LET entry == tables.LEARNING_RESOURCES[i]
               IN  IF entry.skill = w.object[2]
                     THEN [entry EXCEPT !.resource.courses =
                             list_after(entry.resource.courses, w.op, w.value)]
                     ELSE entry]]
  ELSE tables

\* The tables after the in-place operations of a stage, in their order.
RECURSIVE tables_after(_, _)
tables_after(tables, writes) ==
  IF writes = <<>> THEN tables
  ELSE tables_after(tables_after_one(tables, Head(writes)), Tail(writes))

\* SkillExtractor.__init__: self.all_skills, a new list, is extended by the
\* list of every category.
skill_extractor_writes ==
  [i \in 1..Len(SKILL_CATEGORIES) |->
     in_place("self.all_skills", "", "extend", SKILL_CATEGORIES[i].skills)]

\* The order in which the dict categorized is iterated when it is sorted.
CategoryOrder ==
  [i \in 1..Len(SKILL_CATEGORIES) |-> SKILL_CATEGORIES[i].category]

\* _categorize_skills with the appends and the sorts on the lists of
\* SKILL_CATEGORIES in place of the lists of the dict categorized.
categorize_writes_on_tables(skills_iter) ==
  [i \in 1..Len(skills_iter) |->
     in_place("SKILL_CATEGORIES", category_of(skills_iter[i]), "append", skills_iter[i])]
  \o [c \in 1..Len(CategoryOrder) |->
        in_place("SKILL_CATEGORIES", CategoryOrder[c], "sort", <<>>)]

\* The in-place operations of _categorize_skills: an append for every skill
\* and a sort for every category, on the lists of the dict categorized that
\* the function has created.
categorize_writes(skills_iter) ==
  [i \in 1..Len(skills_iter) |->
     in_place("categorized", category_of(skills_iter[i]), "append", skills_iter[i])]
  \o [c \in 1..Len(CategoryOrder) |->
        in_place("categorized", CategoryOrder[c], "sort", <<>>)]

\* normalized_skills of extract_from_text: the skills found by name or alias.
normalized_skills(text) == _normalize_skills(found_skills(text), text)

extract_from_text(text, seed) ==
  _categorize_skills(set_iter(normalized_skills(text), seed))

\* dict.get(key, default)
get(d, key, default) == IF key \in DOMAIN d THEN d[key] ELSE default

\* The text extract_from_resume searches: the skills section if the resume
\* has a non-empty one, else the whole text.
resume_skill_text(rd) ==
  LET text == get(get(rd, "sections", <<>>), "skills", <<>>)
  IN  IF text # <<>> THEN text ELSE get(rd, "raw_text", <<>>)

extract_from_resume(rd, seed) == extract_from_text(resume_skill_text(rd), seed)

\* The step of main that extracts the resume's skills.  The set of skills
\* does not depend on the seed: it is computed once, and the seed chooses the
\* order in which _categorize_skills iterates it, as in extract_from_resume.
ExtractResumeSkills ==
  /\ pc = "extract_resume"
  /\ \E normalized \in {normalized_skills(resume_skill_text(resume_data))} :
         \E seed \in HashSeeds :
           /\ resume_skills' = _categorize_skills(set_iter(normalized, seed))
           /\ settings' = tables_after(settings,
                             skill_extractor_writes
                               \o categorize_writes(set_iter(normalized, seed)))
  /\ pc' = "extract_jd"
  /\ UNCHANGED <<completed, jd_parser_text, resume_file_text, resume_data, jd_text, jd_data, jd_skills, skill_comparison,
                 match_result, gap_analysis, learning_path, float_tie_up,
                 session, tmp_files>>

----------------------------------------------------------------------------
(* SkillExtractor.compare_skills *)

compare_missing_swapped(resume_set, jd_set) == resume_set \ jd_set

compare_missing(resume_set, jd_set) == jd_set \ resume_set

compare_percentage_truncated(matched, jd_set) ==
  IF jd_set # {}
    THEN (Cardinality(matched) * 100 * 100) \div Cardinality(jd_set)
    ELSE 0

\* round(match_percentage, 2), in hundredths.
compare_percentage(matched, jd_set) ==
  IF jd_set # {}
    THEN RoundHalfEven(Cardinality(matched) * 100 * 100, Cardinality(jd_set))
    ELSE 0

compare_skills(resume_list, jd_list) ==
  LET resume_set == {lower(s) : s \in Range(resume_list)}
      jd_set == {lower(s) : s \in Range(jd_list)}
      matched == resume_set \cap jd_set
      missing == compare_missing(resume_set, jd_set)
      extra == resume_set \ jd_set
  IN  [matched_skills |-> sorted(matched),
       missing_skills |-> sorted(missing),
       extra_skills |-> sorted(extra),
       match_percentage |-> compare_percentage(matched, jd_set),
       matched_count |-> Cardinality(matched),
       total_required |-> Cardinality(jd_set)]

\* The step of main that compares the resume's skills with the JD's.
CompareSkills ==
  /\ pc = "compare"
  /\ skill_comparison' = compare_skills(resume_skills.all_skills, jd_skills.required_skills)
  /\ pc' = "score"
  /\ UNCHANGED <<completed, jd_parser_text, resume_file_text, resume_data, jd_text, jd_data, resume_skills, jd_skills,
                 match_result, gap_analysis, learning_path, float_tie_up,
                 session, tmp_files, settings>>

----------------------------------------------------------------------------
(* Matcher *)

\* A score is a rational number num / den with den > 0: the semantic score
\* is a quotient that has no finite decimal expansion.
RECURSIVE Gcd(_, _)
Gcd(a, b) == IF b = 0 THEN a ELSE Gcd(b, a % b)
\* In lowest terms, which keeps the numbers small.
Rat(n, d) == LET g == Gcd(n, d) IN [num |-> n \div g, den |-> d \div g]
RatLeq(a, b) == a.num * b.den <= b.num * a.den
RatMin(a, b) == IF RatLeq(a, b) THEN a ELSE b
RatAdd(a, b) == Rat(a.num * b.den + b.num * a.den, a.den * b.den)
\* a * (k / m)
RatTimes(a, k, m) == Rat(a.num * k, a.den * m)
\* round(a, 2), in hundredths, of a float computed as a sum of products,
\* for a >= 0.  The float differs from the exact value a by a rounding error
\* far smaller than a hundredth, so it rounds as a does unless a is at a tie
\* between two hundredths: there the float lies just above or just below it
\* and rounds up or down accordingly (up).
round2(a, up) ==
  LET q == (a.num * 100) \div a.den
      r == (a.num * 100) % a.den
  IN  IF 2 * r < a.den THEN q
      ELSE IF 2 * r > a.den THEN q + 1
      ELSE IF up THEN q + 1 ELSE q

skills_score_bonus_subtracted(sc) ==
  LET match_percentage == get(sc, "match_percentage", 0)
  IN  IF match_percentage >= 8000
        THEN Rat(match_percentage - 1000, 100)
        ELSE Rat(match_percentage, 100)

\* match_percentage is in hundredths.
_calculate_skills_score(sc) ==
  LET match_percentage == get(sc, "match_percentage", 0)
      with_bonus == match_percentage + 1000
  IN  IF match_percentage >= 8000
        THEN Rat(IF with_bonus < 10000 THEN with_bonus ELSE 10000, 100)
        ELSE Rat(match_percentage, 100)

\* int() of a run of digits.
RECURSIVE int_of(_)
int_of(digits) ==
  IF digits = <<>> THEN 0
  ELSE 10 * int_of(SubSeq(digits, 1, Len(digits) - 1))
         + (IndexIn(DigitChars, digits[Len(digits)]) - 1)

\* The end of the run of digits that starts at index i of s.
RECURSIVE digits_end(_, _)
digits_end(s, i) ==
  IF i + 1 <= Len(s) /\ IsDigit(s[i + 1]) THEN digits_end(s, i + 1) ELSE i

\* re.search(r'(\d+)', s): the first run of digits as an int, 0 without one.
first_int(s) ==
  LET at == {i \in 1..Len(s) : IsDigit(s[i])}
  IN  IF at = {} THEN 0
      ELSE LET i == CHOOSE k \in at : \A m \in at : k <= m
           IN  int_of(SubSeq(s, i, digits_end(s, i)))

experience_score_strict(resume_exp, required_exp) ==
  IF required_exp = 0 THEN (IF resume_exp <= 2 THEN 100 ELSE 80)
  ELSE IF resume_exp >= required_exp
    THEN (IF resume_exp < required_exp + 2 THEN 100 ELSE 90)
    ELSE LET gap == required_exp - resume_exp
         IN  IF gap <= 1 THEN 70 ELSE IF gap <= 2 THEN 50 ELSE 30

\* The scoring logic of _calculate_experience_score.
experience_score(resume_exp, required_exp) ==
  IF required_exp = 0 THEN (IF resume_exp <= 2 THEN 100 ELSE 80)
  ELSE IF resume_exp >= required_exp
    THEN (IF resume_exp <= required_exp + 2 THEN 100 ELSE 90)
    ELSE LET gap == required_exp - resume_exp
         IN  IF gap <= 1 THEN 70 ELSE IF gap <= 2 THEN 50 ELSE 30

_calculate_experience_score(rd, jd) ==
  LET resume_exp == get(rd, "experience_years", 0)
      jd_exp_str == get(jd, "experience_required", Str("0"))
  IN  Rat(experience_score(resume_exp, first_int(jd_exp_str)), 1)

\* sep.join(list)
RECURSIVE join(_, _)
join(sep, l) ==
  IF l = <<>> THEN <<>>
  ELSE IF Len(l) = 1 THEN l[1]
  ELSE l[1] \o sep \o join(sep, Tail(l))

degree_keywords ==
  <<Str("b.tech"), Str("b.e."), Str("bachelor"), Str("m.tech"), Str("m.e."),
    Str("master"), Str("phd")>>
partial_keywords == <<Str("bachelor"), Str("b.tech"), Str("b.e."), Str("graduate")>>

_calculate_education_score(rd, jd) ==
  LET resume_edu == get(rd, "education", <<>>)
      jd_edu == get(jd, "education_required", <<>>)
      resume_edu_str == lower(join(Str(" "), resume_edu))
      jd_edu_lower == lower(jd_edu)
  IN  IF jd_edu = <<>> \/ contains(lower(jd_edu), Str("not specified")) THEN Rat(100, 1)
      ELSE IF \E i \in 1..Len(degree_keywords) :
                /\ contains(jd_edu_lower, degree_keywords[i])
                /\ contains(resume_edu_str, degree_keywords[i])
        THEN Rat(100, 1)
      ELSE IF \E i \in 1..Len(partial_keywords) :
                contains(resume_edu_str, partial_keywords[i])
        THEN Rat(80, 1)
      ELSE Rat(50, 1)

\* set(re.findall(r'\b\w{4,}\b', text)): the maximal runs of word characters
\* that have at least 4 characters.
words4(text) ==
  LET starts == {i \in 1..Len(text) :
                   IsWordChar(text[i]) /\ (i = 1 \/ ~IsWordChar(text[i - 1]))}
      end(i) == CHOOSE e \in i..Len(text) :
                  /\ \A k \in i..e : IsWordChar(text[k])
                  /\ e = Len(text) \/ ~IsWordChar(text[e + 1])
  IN  {SubSeq(text, i, end(i)) : i \in {k \in starts : end(k) - k >= 3}}

common_words ==
  {Str("that"), Str("this"), Str("with"), Str("from"), Str("have"), Str("will"),
   Str("your"), Str("their"), Str("about"), Str("would"), Str("there"),
   Str("which"), Str("when"), Str("where"), Str("experience"), Str("work"),
   Str("team"), Str("role"), Str("company"), Str("years")}

_calculate_semantic_score(rd, jd) ==
  LET resume_text == lower(get(rd, "raw_text", <<>>))
      jd_text_lower == lower(get(jd, "raw_text", <<>>))
      jd_words == words4(jd_text_lower) \ common_words
      resume_words == words4(resume_text) \ common_words
      overlap == Cardinality(jd_words \cap resume_words)
  IN  IF jd_words = {} THEN Rat(70, 1)
      ELSE RatMin(Rat(100, 1), Rat(overlap * 100 * 12, Cardinality(jd_words) * 10))

\* The weighted sum; the weights are in hundredths.
weighted_score(skills, experience, education, semantic) ==
  RatAdd(RatAdd(RatTimes(skills, SCORING_WEIGHTS.skills_match, 100),
                RatTimes(experience, SCORING_WEIGHTS.experience_match, 100)),
         RatAdd(RatTimes(education, SCORING_WEIGHTS.education_match, 100),
                RatTimes(semantic, SCORING_WEIGHTS.semantic_similarity, 100)))

_determine_fit_level(score) ==
  IF RatLeq(Rat(85, 1), score) THEN "Excellent Fit"
  ELSE IF RatLeq(Rat(70, 1), score) THEN "Good Fit"
  ELSE IF RatLeq(Rat(55, 1), score) THEN "Moderate Fit"
  ELSE IF RatLeq(Rat(40, 1), score) THEN "Below Average Fit"
  ELSE "Poor Fit"

_generate_recommendation(score, sc) ==
  LET missing_count == Len(get(sc, "missing_skills", <<>>))
  IN  IF RatLeq(Rat(85, 1), score)
        THEN "Strong candidate! Apply with confidence. Highlight your matching skills prominently in your application."
      ELSE IF RatLeq(Rat(70, 1), score)
        THEN IF missing_count <= 2
               THEN "Good match! Consider learning the missing skills quickly or emphasize transferable skills in your application."
               ELSE "Decent fit, but focus on acquiring the key missing skills before applying for best results."
      ELSE IF RatLeq(Rat(55, 1), score)
        THEN "Moderate fit. You're missing " \o ToString(missing_count)
               \o " key skills. Invest 2-4 weeks in learning these before applying."
      ELSE IF RatLeq(Rat(40, 1), score)
        THEN "Significant skill gaps detected. Consider this role as a stretch goal and focus on building foundational skills first."
      ELSE "This role may not be the best fit right now. Focus on roles that better match your current skill set."

\* resume_skills and jd_skills are arguments that the function does not read.
calculate_match_score(rd, jd, rs, js, sc, up) ==
  LET skills_score == _calculate_skills_score(sc)
      experience == _calculate_experience_score(rd, jd)
      education == _calculate_education_score(rd, jd)
      semantic == _calculate_semantic_score(rd, jd)
      overall_score == weighted_score(skills_score, experience, education, semantic)
  IN  [overall_score |-> round2(overall_score, up),
       fit_level |-> _determine_fit_level(overall_score),
       breakdown |-> [skills_match |-> round2(skills_score, up),
                      experience_match |-> round2(experience, up),
                      education_match |-> round2(education, up),
                      semantic_similarity |-> round2(semantic, up)],
       weights_used |-> SCORING_WEIGHTS,
       recommendation |-> _generate_recommendation(overall_score, sc)]

\* The step of main that calculates the match.
CalculateMatch ==
  /\ pc = "score"
  /\ match_result' = calculate_match_score(resume_data, jd_data, resume_skills,
                                           jd_skills, skill_comparison, float_tie_up)
  /\ pc' = "gaps"
  /\ UNCHANGED <<completed, jd_parser_text, resume_file_text, resume_data, jd_text, jd_data, resume_skills, jd_skills,
                 skill_comparison, gap_analysis, learning_path, float_tie_up,
                 session, tmp_files, settings>>

----------------------------------------------------------------------------
(* GapAnalyzer *)

\* category.replace('_', ' ').title() of the first category that lists the
\* skill, compared in lower case; 'Technical Skill' without one.
_categorize_single_skill(skill) ==
  LET skill_lower == lower(skill)
      hits == {i \in 1..Len(SKILL_CATEGORIES) :
                 \E k \in 1..Len(SKILL_CATEGORIES[i].skills) :
                   lower(SKILL_CATEGORIES[i].skills[k]) = skill_lower}
  IN  IF hits = {} THEN Str("Technical Skill")
      ELSE LET category == Str(SKILL_CATEGORIES[CHOOSE i \in hits : \A j \in hits : i <= j].category)
           IN  title([i \in 1..Len(category) |->
                        IF category[i] = "_" THEN " " ELSE category[i]])

lower_set(l) == {lower(l[i]) : i \in 1..Len(l)}

gap_item(skill, priority, reason) ==
  [skill |-> title(skill), priority |-> priority,
   category |-> _categorize_single_skill(skill), reason |-> reason]

\* The items of the loop, in the order of missing_skills.
RECURSIVE gaps_where(_, _, _, _)
gaps_where(missing_skills, keep, priority, reason) ==
  IF missing_skills = <<>> THEN <<>>
  ELSE (IF lower(Head(missing_skills)) \in keep
          THEN <<gap_item(Head(missing_skills), priority, reason)>> ELSE <<>>)
       \o gaps_where(Tail(missing_skills), keep, priority, reason)

_identify_critical_gaps(missing_skills, jd) ==
  LET required_skills == lower_set(get(jd, "required_skills", <<>>))
  IN  gaps_where(missing_skills, required_skills, "High", "Required by job description")

\* _identify_nice_to_have_gaps without 'or skill.lower() not in
\* required_skills'.
nice_to_have_preferred_only(missing_skills, jd) ==
  LET preferred_skills == lower_set(get(jd, "preferred_skills", <<>>))
  IN  gaps_where(missing_skills, preferred_skills,
                 "Medium", "Preferred or complementary skill")

\* A missing skill is kept if it is preferred or if it is not required.
_identify_nice_to_have_gaps(missing_skills, jd) ==
  LET preferred_skills == lower_set(get(jd, "preferred_skills", <<>>))
      required_skills == lower_set(get(jd, "required_skills", <<>>))
  IN  gaps_where(missing_skills,
                 preferred_skills \cup (lower_set(missing_skills) \ required_skills),
                 "Medium", "Preferred or complementary skill")

_analyze_skill_strengths(matched_skills) ==
  LET count == Len(matched_skills)
  IN  IF matched_skills = <<>> THEN [level |-> "None", count |-> 0]
      ELSE [level |-> IF count >= 8 THEN "Excellent"
                      ELSE IF count >= 5 THEN "Strong"
                      ELSE IF count >= 3 THEN "Moderate"
                      ELSE "Basic",
            count |-> count,
            skills |-> [i \in 1..count |-> title(matched_skills[i])]]

gap_summary_bands_shifted(critical_gaps, nice_to_have_gaps) ==
  LET critical_count == Len(critical_gaps)
      nice_count == Len(nice_to_have_gaps)
  IN  IF critical_count = 0 /\ nice_count = 0
        THEN "Excellent! You have all the required skills for this role."
      ELSE IF critical_count = 0
        THEN "You have all critical skills! " \o ToString(nice_count)
               \o " nice-to-have skill(s) could strengthen your profile."
      ELSE IF critical_count < 2
        THEN "You're close! Focus on " \o ToString(critical_count)
               \o " critical skill(s) to significantly improve your fit."
      ELSE IF critical_count < 5
        THEN "Moderate gaps detected. " \o ToString(critical_count)
               \o " critical skills need attention. Plan 3-4 weeks of focused learning."
      ELSE "Significant gaps found. " \o ToString(critical_count)
             \o " critical skills missing. This role might be a stretch goal - consider building fundamentals first."

_generate_gap_summary(critical_gaps, nice_to_have_gaps) ==
  LET critical_count == Len(critical_gaps)
      nice_count == Len(nice_to_have_gaps)
  IN  IF critical_count = 0 /\ nice_count = 0
        THEN "Excellent! You have all the required skills for this role."
      ELSE IF critical_count = 0
        THEN "You have all critical skills! " \o ToString(nice_count)
               \o " nice-to-have skill(s) could strengthen your profile."
      ELSE IF critical_count <= 2
        THEN "You're close! Focus on " \o ToString(critical_count)
               \o " critical skill(s) to significantly improve your fit."
      ELSE IF critical_count <= 5
        THEN "Moderate gaps detected. " \o ToString(critical_count)
               \o " critical skills need attention. Plan 3-4 weeks of focused learning."
      ELSE "Significant gaps found. " \o ToString(critical_count)
             \o " critical skills missing. This role might be a stretch goal - consider building fundamentals first."

\* any(word in skill_lower for word in words)
any_in(words, skill_lower) == \E i \in 1..Len(words) : contains(skill_lower, Str(words[i]))

\* _estimate_learning_time with the test of the frameworks before the test
\* of the programming languages.
estimate_learning_time_frameworks_first(skill) ==
  LET skill_lower == lower(skill)
  IN  IF any_in(<<"react", "angular", "django", "spring", "node">>, skill_lower)
        THEN "2-4 weeks"
      ELSE IF any_in(<<"python", "java", "javascript", "c++", "go">>, skill_lower)
        THEN "4-6 weeks"
      ELSE IF any_in(<<"docker", "git", "aws", "kubernetes">>, skill_lower)
        THEN "1-2 weeks"
      ELSE IF any_in(<<"sql", "mongodb", "postgresql", "mysql">>, skill_lower)
        THEN "2-3 weeks"
      ELSE "2-3 weeks"

_estimate_learning_time(skill) ==
  LET skill_lower == lower(skill)
  IN  IF any_in(<<"python", "java", "javascript", "c++", "go">>, skill_lower)
        THEN "4-6 weeks"
      ELSE IF any_in(<<"react", "angular", "django", "spring", "node">>, skill_lower)
        THEN "2-4 weeks"
      ELSE IF any_in(<<"docker", "git", "aws", "kubernetes">>, skill_lower)
        THEN "1-2 weeks"
      ELSE IF any_in(<<"sql", "mongodb", "postgresql", "mysql">>, skill_lower)
        THEN "2-3 weeks"
      ELSE "2-3 weeks"

priority_item(rank, gap, priority) ==
  [rank |-> rank, skill |-> gap.skill, priority |-> priority,
   category |-> gap.category, estimated_time |-> _estimate_learning_time(gap.skill)]

\* _prioritize_learning without the slice [:5] of the critical gaps.
prioritize_learning_unsliced(critical_gaps, nice_to_have_gaps) ==
  LET critical == critical_gaps
      nice == SubSeq(nice_to_have_gaps, 1, Min(3, Len(nice_to_have_gaps)))
      start_rank == Len(critical) + 1
  IN  [i \in 1..Len(critical) |-> priority_item(i, critical[i], "Critical")]
      \o [i \in 1..Len(nice) |-> priority_item(start_rank + i - 1, nice[i], "Nice-to-have")]

\* _prioritize_learning with start_rank = 6 in place of
\* len(priority_list) + 1.
prioritize_learning_from_six(critical_gaps, nice_to_have_gaps) ==
  LET critical == SubSeq(critical_gaps, 1, Min(5, Len(critical_gaps)))
      nice == SubSeq(nice_to_have_gaps, 1, Min(3, Len(nice_to_have_gaps)))
      start_rank == 5 + 1
  IN  [i \in 1..Len(critical) |-> priority_item(i, critical[i], "Critical")]
      \o [i \in 1..Len(nice) |-> priority_item(start_rank + i - 1, nice[i], "Nice-to-have")]

_prioritize_learning(critical_gaps, nice_to_have_gaps) ==
  LET critical == SubSeq(critical_gaps, 1, Min(5, Len(critical_gaps)))
      nice == SubSeq(nice_to_have_gaps, 1, Min(3, Len(nice_to_have_gaps)))
      start_rank == Len(critical) + 1
  IN  [i \in 1..Len(critical) |-> priority_item(i, critical[i], "Critical")]
      \o [i \in 1..Len(nice) |-> priority_item(start_rank + i - 1, nice[i], "Nice-to-have")]

analyze_gaps(sc, jd) ==
  LET missing_skills == get(sc, "missing_skills", <<>>)
      matched_skills == get(sc, "matched_skills", <<>>)
      critical_gaps == _identify_critical_gaps(missing_skills, jd)
      nice_to_have_gaps == _identify_nice_to_have_gaps(missing_skills, jd)
  IN  [total_gaps |-> Len(missing_skills),
       critical_gaps |-> critical_gaps,
       nice_to_have_gaps |-> nice_to_have_gaps,
       matched_skills |-> matched_skills,
       skill_strengths |-> _analyze_skill_strengths(matched_skills),
       gap_summary |-> _generate_gap_summary(critical_gaps, nice_to_have_gaps),
       priority_order |-> _prioritize_learning(critical_gaps, nice_to_have_gaps)]

\* The step of main that analyzes the gaps.
AnalyzeGaps ==
  /\ pc = "gaps"
  /\ gap_analysis' = analyze_gaps(skill_comparison, jd_data)
  /\ pc' = "learn"
  /\ UNCHANGED <<completed, jd_parser_text, resume_file_text, resume_data, jd_text, jd_data, resume_skills, jd_skills,
                 skill_comparison, match_result, learning_path, float_tie_up,
                 session, tmp_files, settings>>

----------------------------------------------------------------------------
(* ResumeParser *)

\* The index of the first character at or after index i that is not \s.
RECURSIVE skip_space(_, _)
skip_space(text, i) ==
  IF i <= Len(text) /\ IsSpace(text[i]) THEN skip_space(text, i + 1) ELSE i

\* The pattern word matches at index i of text, ignoring case.
word_at(word, text, i) == i >= 1 /\ match_at(word, text, i - 1)

\* The indexes where a maximal run of digits starts.
digit_runs(text) ==
  {i \in 1..Len(text) : IsDigit(text[i]) /\ (i = 1 \/ ~IsDigit(text[i - 1]))}

\* r'(\d+)\+?\s*years?' at the run of digits that starts at i: the index
\* after 'year' if the pattern matches there, else 0.
plus_years_end(text, i) ==
  LET e == digits_end(text, i)
      j == IF e + 1 <= Len(text) /\ text[e + 1] = "+" THEN e + 2 ELSE e + 1
      y == skip_space(text, j)
  IN  IF word_at(Str("year"), text, y) THEN y + 4 ELSE 0

plus_years_at(text, i) == plus_years_end(text, i) # 0

\* r'(\d+)\s*-\s*(\d+)\s*years?' matches at the run of digits that starts at i.
range_years_at(text, i) ==
  LET e == digits_end(text, i)
      dash == skip_space(text, e + 1)
      second == skip_space(text, dash + 1)
  IN  /\ dash <= Len(text) /\ text[dash] = "-"
      /\ second <= Len(text) /\ IsDigit(text[second])
      /\ word_at(Str("year"), text, skip_space(text, digits_end(text, second) + 1))

\* years: the numbers that the two experience patterns capture.
experience_numbers(text) ==
  {int_of(SubSeq(text, i, digits_end(text, i))) :
     i \in {k \in digit_runs(text) : plus_years_at(text, k) \/ range_years_at(text, k)}}

\* The class between the two years of the date pattern: the hyphen and the
\* three characters that the source file has where an en dash was meant.
DateSeparators == {"-", ACircumflex, EuroSign, LeftQuote}

\* text[i..i+3] is 20\d{2}.
year_at(text, i) ==
  /\ i >= 1 /\ i + 3 <= Len(text)
  /\ text[i] = "2" /\ text[i + 1] = "0" /\ IsDigit(text[i + 2]) /\ IsDigit(text[i + 3])

\* The match of the date pattern that starts at index i: <<start, end, the
\* index after the match>>, or <<>> without one.
date_at(text, i) ==
  IF ~year_at(text, i) THEN <<>>
  ELSE LET sep == skip_space(text, i + 4)
           k == skip_space(text, sep + 1)
       IN  IF ~(sep <= Len(text) /\ text[sep] \in DateSeparators) THEN <<>>
           ELSE IF year_at(text, k)
             THEN <<SubSeq(text, i, i + 3), SubSeq(text, k, k + 3), k + 4>>
           ELSE IF word_at(Str("Present"), text, k) \/ word_at(Str("Current"), text, k)
             THEN <<SubSeq(text, i, i + 3), SubSeq(text, k, k + 6), k + 7>>
           ELSE <<>>

\* The matches among those that start at the indexes of starts (ascending)
\* that findall returns: each search starts where the match before it ended.
RECURSIVE date_matches_after(_, _, _)
date_matches_after(text, starts, from) ==
  IF starts = <<>> THEN <<>>
  ELSE IF Head(starts) < from THEN date_matches_after(text, Tail(starts), from)
  ELSE LET m == date_at(text, Head(starts))
       IN  << <<m[1], m[2]>> >> \o date_matches_after(text, Tail(starts), m[3])

\* re.findall(date_pattern, text, re.IGNORECASE)
date_matches_from(text, i) ==
  date_matches_after(text, ascending({k \in i..Len(text) : date_at(text, k) # <<>>}), i)

\* end_year - start_year of one date match.
year_span(start, end) ==
  LET start_year == int_of(start)
      end_year == IF lower(end) \in {Str("present"), Str("current")} THEN 2024
                  ELSE int_of(end)
  IN  end_year - start_year

RECURSIVE total_exp(_)
total_exp(date_matches) ==
  IF date_matches = <<>> THEN 0
  ELSE year_span(date_matches[1][1], date_matches[1][2]) + total_exp(Tail(date_matches))

SetMax(S) == CHOOSE x \in S : \A y \in S : x >= y

_estimate_experience(text) ==
  LET years == experience_numbers(text)
      date_matches == date_matches_from(text, 1)
  IN  IF date_matches # <<>> THEN total_exp(date_matches)
      ELSE IF years # {} THEN SetMax(years) ELSE 0

\* text.split('\n'): the pieces between the newlines.
split_lines(text) ==
  LET breaks == {i \in 1..Len(text) : text[i] = "\n"}
      nth(k) == CHOOSE i \in breaks : Cardinality({j \in breaks : j < i}) = k - 1
      n == Cardinality(breaks)
  IN  [k \in 1..(n + 1) |->
         SubSeq(text, IF k = 1 THEN 1 ELSE nth(k - 1) + 1,
                      IF k = n + 1 THEN Len(text) ELSE nth(k) - 1)]

\* str.strip()
RECURSIVE strip(_)
strip(s) ==
  IF s = <<>> THEN s
  ELSE IF IsSpace(s[1]) THEN strip(Tail(s))
  ELSE IF IsSpace(s[Len(s)]) THEN strip(SubSeq(s, 1, Len(s) - 1))
  ELSE s

\* len(line.split())
word_count(line) ==
  Cardinality({i \in 1..Len(line) :
                 ~IsSpace(line[i]) /\ (i = 1 \/ IsSpace(line[i - 1]))})

education_keywords ==
  <<Str("B.Tech"), Str("B.E."), Str("M.Tech"), Str("M.E."), Str("Bachelor"),
    Str("Master"), Str("PhD"), Str("B.S."), Str("M.S."), Str("MBA"), Str("BCA"),
    Str("MCA")>>

_extract_education(text) ==
  LET lines == split_lines(text)
      kept == SelectSeq(lines, LAMBDA line :
                \E i \in 1..Len(education_keywords) :
                  contains(lower(line), lower(education_keywords[i])))
  IN  [i \in 1..Len(kept) |-> strip(kept[i])]

\* The section headers in the order of the dict, each with the strings that
\* its pattern searches for.
section_headers ==
  << [name |-> "education", words |-> <<"education", "academic", "qualification">>],
     [name |-> "experience", words |-> <<"experience", "employment", "work history">>],
     [name |-> "skills", words |-> <<"skills", "technical skills", "competencies">>],
     [name |-> "projects", words |-> <<"projects", "portfolio">>],
     [name |-> "certifications", words |-> <<"certification", "license">>] >>

\* matched_section of a line: the index of the first header that the line
\* matches, 0 without one.
matched_section(line) ==
  LET line_lower == strip(lower(line))
      hits == {h \in 1..Len(section_headers) :
                 /\ any_in(section_headers[h].words, line_lower)
                 /\ word_count(line) <= 5}
  IN  IF hits = {} THEN 0 ELSE CHOOSE h \in hits : \A g \in hits : h <= g

\* sections[name] = value
dict_set(d, name, value) ==
  [k \in DOMAIN d \cup {name} |-> IF k = name THEN value ELSE d[k]]

\* The loop of _identify_sections over the lines that are left, and the save
\* of the last section.  current is 0 for None.
RECURSIVE sections_from(_, _, _, _)
sections_from(lines, sections, current, content) ==
  LET saved == IF current # 0 /\ content # <<>>
                 THEN dict_set(sections, section_headers[current].name,
                               join(Str("\n"), content))
                 ELSE sections
  IN  IF lines = <<>> THEN saved
      ELSE LET matched == matched_section(Head(lines))
           IN  IF matched # 0 THEN sections_from(Tail(lines), saved, matched, <<>>)
               ELSE IF current # 0
                 THEN sections_from(Tail(lines), sections, current,
                                    Append(content, Head(lines)))
               ELSE sections_from(Tail(lines), sections, current, content)

_identify_sections(text) == sections_from(split_lines(text), <<>>, 0, <<>>)

\* The result of parse_file for a file with the given text; email and phone
\* are left out, no stage reads them.
parse_result(text) ==
  [raw_text |-> text,
   education |-> _extract_education(text),
   experience_years |-> _estimate_experience(text),
   sections |-> _identify_sections(text)]

\* The step of main that parses the resume: resume_file_text is the text
\* that parse_file has extracted from the file.
ParseResume ==
  /\ pc = "parse_resume"
  /\ resume_data' = parse_result(resume_file_text)
  /\ pc' = "parse_jd"
  /\ UNCHANGED <<completed, jd_parser_text, resume_file_text, jd_text, jd_data, resume_skills, jd_skills,
                 skill_comparison, match_result, gap_analysis, learning_path,
                 float_tie_up,
                 session, tmp_files, settings>>

----------------------------------------------------------------------------
(* JDParser *)

\* One character of a pattern against one of the text, ignoring case; the
\* token ANY is the dot, which matches every character but the newline.
token_match(token, c) ==
  IF token = "ANY" THEN c # "\n" ELSE LowerTable[c] = LowerTable[token]

\* The tokens match at offset i of text.
pattern_at(pattern, text, i) ==
  /\ i >= 0 /\ i + Len(pattern) <= Len(text)
  /\ \A k \in 1..Len(pattern) : token_match(pattern[k], text[i + k])

\* No newline in text[from..to].
same_line(text, from, to) == \A k \in from..to : text[k] # "\n"

\* An alternative of a pattern: first, or first.*?second.
Alt(first) == [first |-> Str(first), second |-> <<>>]
Alt2(first, second) == [first |-> Str(first), second |-> Str(second)]

\* re.search of one alternative, between \b where b_start and b_end say so.
search_alternative(alt, text, b_start, b_end) ==
  \E i \in 0..(Len(text) - Len(alt.first)) :
    /\ pattern_at(alt.first, text, i)
    /\ b_start => word_boundary(text, i)
    /\ LET e == i + Len(alt.first)
       IN  IF alt.second = <<>> THEN b_end => word_boundary(text, e)
           ELSE \E j \in e..(Len(text) - Len(alt.second)) :
                  /\ same_line(text, e + 1, j)
                  /\ pattern_at(alt.second, text, j)
                  /\ b_end => word_boundary(text, j + Len(alt.second))

\* re.search(pattern, text, re.IGNORECASE) for a pattern of alternatives.
regex_search(alts, text, b_start, b_end) ==
  \E a \in 1..Len(alts) : search_alternative(alts[a], text, b_start, b_end)

\* str.startswith(prefix), case-sensitive.
startswith(s, prefix) == Len(prefix) <= Len(s) /\ SubSeq(s, 1, Len(prefix)) = prefix

section_end_words ==
  <<"required", "preferred", "responsibilities", "qualifications", "benefits",
    "about", "location", "salary">>

\* The loop of _extract_section over the lines that are left.
RECURSIVE section_lines(_, _, _)
section_lines(lines, section_pattern, in_section) ==
  IF lines = <<>> THEN <<>>
  ELSE LET line == Head(lines)
           line_lower == strip(lower(line))
       IN  IF regex_search(section_pattern, line_lower, FALSE, FALSE) /\ word_count(line) <= 8
             THEN section_lines(Tail(lines), section_pattern, TRUE)
           ELSE IF /\ in_section /\ word_count(line) <= 8
                   /\ \E w \in 1..Len(section_end_words) :
                        startswith(line_lower, Str(section_end_words[w]))
                   /\ ~regex_search(section_pattern, line_lower, FALSE, FALSE)
             THEN <<>>
           ELSE IF in_section
             THEN <<line>> \o section_lines(Tail(lines), section_pattern, in_section)
           ELSE section_lines(Tail(lines), section_pattern, in_section)

_extract_section(text, section_pattern) ==
  join(Str("\n"), section_lines(split_lines(text), section_pattern, FALSE))

required_pattern == <<Alt("required"), Alt("must have"), Alt("essential"), Alt("qualifications")>>
preferred_pattern == <<Alt("preferred"), Alt("nice to have"), Alt("bonus"), Alt("plus")>>
responsibilities_pattern ==
  <<Alt("responsibilities"), Alt("duties"), Alt("role"), Alt2("what you", "do")>>

_extract_required_skills(text) ==
  LET required_section == _extract_section(text, required_pattern)
      search_text == IF required_section # <<>> THEN required_section ELSE text
  IN  sorted(found_skills(search_text))

\* _extract_preferred_skills with the fall-back of _extract_required_skills
\* to the whole text.
extract_preferred_with_fallback(text) ==
  LET preferred_section == _extract_section(text, preferred_pattern)
      search_text == IF preferred_section # <<>> THEN preferred_section ELSE text
  IN  sorted(found_skills(search_text))

_extract_preferred_skills(text) ==
  LET preferred_section == _extract_section(text, preferred_pattern)
  IN  IF preferred_section = <<>> THEN <<>>
      ELSE sorted(found_skills(preferred_section))

\* The digits of the run that starts at i.
run_digits(text, i) == SubSeq(text, i, digits_end(text, i))

\* The runs of digits where r'(\d+)\+?\s*years?.*?experience' matches.
years_experience_runs(text) ==
  {i \in digit_runs(text) :
     /\ plus_years_at(text, i)
     /\ \E j \in (plus_years_end(text, i) - 1)..(Len(text) - 10) :
          /\ same_line(text, plus_years_end(text, i), j)
          /\ match_at(Str("experience"), text, j)}

\* The runs of digits that r'experience.*?(\d+)\+?\s*years?' can capture.
experience_years_runs(text) ==
  {i \in digit_runs(text) :
     /\ plus_years_at(text, i)
     /\ \E j \in 0..(i - 11) :
          /\ match_at(Str("experience"), text, j)
          /\ same_line(text, j + 11, i - 1)}

fresher_pattern ==
  << Alt("fresher"),
     [first |-> Str("entry") \o <<"ANY">> \o Str("level"), second |-> <<>>],
     [first |-> <<"0", "ANY">> \o Str("years"), second |-> <<>>],
     Alt("fresh graduate") >>

_extract_experience_requirement(text) ==
  LET first == years_experience_runs(text)
      second == {i \in digit_runs(text) : range_years_at(text, i)}
      third == experience_years_runs(text)
  IN  IF first # {} THEN run_digits(text, SetMin(first)) \o Str("+ years")
      ELSE IF second # {}
        THEN LET i == SetMin(second)
                 dash == skip_space(text, digits_end(text, i) + 1)
             IN  run_digits(text, i) \o Str("-")
                   \o run_digits(text, skip_space(text, dash + 1)) \o Str(" years")
      ELSE IF third # {} THEN run_digits(text, SetMin(third)) \o Str("+ years")
      ELSE IF regex_search(fresher_pattern, text, TRUE, TRUE) THEN Str("0-1 years (Fresher)")
      ELSE Str("Not specified")

\* education_keywords of _extract_education_requirement in the order of the
\* dict: the name, the alternatives of the pattern (an optional dot written
\* out), and whether the pattern ends with \b.
jd_education_keywords ==
  << [edu |-> "B.Tech", b_end |-> TRUE,
      alts |-> <<Alt("BTech"), Alt("B.Tech"), Alt2("Bachelor", "Technology")>>],
     [edu |-> "B.E.", b_end |-> TRUE,
      alts |-> <<Alt("BE"), Alt("B.E"), Alt("BE."), Alt("B.E."),
                 Alt2("Bachelor", "Engineering")>>],
     [edu |-> "M.Tech", b_end |-> TRUE,
      alts |-> <<Alt("MTech"), Alt("M.Tech"), Alt2("Master", "Technology")>>],
     [edu |-> "M.E.", b_end |-> TRUE,
      alts |-> <<Alt("ME"), Alt("M.E"), Alt("ME."), Alt("M.E."),
                 Alt2("Master", "Engineering")>>],
     [edu |-> "Bachelor", b_end |-> FALSE, alts |-> <<Alt("Bachelor")>>],
     [edu |-> "Master", b_end |-> FALSE, alts |-> <<Alt("Master")>>],
     [edu |-> "PhD", b_end |-> TRUE,
      alts |-> <<Alt("PhD"), Alt("Ph.D"), Alt("Ph.D."), Alt("Doctorate")>>],
     [edu |-> "Any Graduate", b_end |-> TRUE,
      alts |-> <<Alt("any graduate"), Alt("graduate"), Alt("degree")>>] >>

_extract_education_requirement(text) ==
  LET found_education ==
        SelectSeq(jd_education_keywords,
                  LAMBDA k : regex_search(k.alts, text, TRUE, k.b_end))
  IN  IF found_education # <<>>
        THEN join(Str(", "), [i \in 1..Len(found_education) |-> Str(found_education[i].edu)])
        ELSE Str("Not specified")

title_words == <<"engineer", "developer", "analyst", "manager", "designer", "scientist">>

_extract_job_title(text) ==
  LET lines == split_lines(text)
      first_lines == [i \in 1..Min(5, Len(lines)) |-> strip(lines[i])]
      titles == {i \in 1..Len(first_lines) :
                   /\ 5 < Len(first_lines[i]) /\ Len(first_lines[i]) < 100
                   /\ ~startswith(first_lines[i], Str("http"))
                   /\ ~startswith(first_lines[i], Str("www"))
                   /\ any_in(title_words, lower(first_lines[i]))}
  IN  IF titles # {} THEN first_lines[SetMin(titles)] ELSE Str("Not specified")

\* The characters of the model that the class of the bullet markers holds.
BulletChars == {"-", "+", "."} \cup Range(DigitChars)

\* re.sub(r'^[...]\s*', '', line)
without_bullet(line) ==
  IF line # <<>> /\ line[1] \in BulletChars
    THEN SubSeq(line, skip_space(line, 2), Len(line))
    ELSE line

_extract_responsibilities(text) ==
  LET resp_section == _extract_section(text, responsibilities_pattern)
      lines == IF resp_section # <<>> THEN split_lines(resp_section) ELSE <<>>
      cleaned == [i \in 1..Len(lines) |-> without_bullet(strip(lines[i]))]
      responsibilities == SelectSeq(cleaned, LAMBDA line : Len(line) > 20 /\ Len(line) < 300)
  IN  SubSeq(responsibilities, 1, Min(5, Len(responsibilities)))

\* JDParser.parse after self.text = jd_text.
parse(text) ==
  [raw_text |-> text,
   required_skills |-> _extract_required_skills(text),
   preferred_skills |-> _extract_preferred_skills(text),
   experience_required |-> _extract_experience_requirement(text),
   education_required |-> _extract_education_requirement(text),
   job_title |-> _extract_job_title(text),
   responsibilities |-> _extract_responsibilities(text)]

\* The in-place operations of the parser on lists: all_skills, a new list
\* of _extract_required_skills and of _extract_preferred_skills, is extended
\* by the list of every category.
jd_parser_writes ==
  [i \in 1..(2 * Len(SKILL_CATEGORIES)) |->
     in_place("all_skills", "", "extend",
              SKILL_CATEGORIES[((i - 1) % Len(SKILL_CATEGORIES)) + 1].skills)]

\* The step of main that parses the JD: parse assigns self.text and then
\* reads it.
ParseJd ==
  /\ pc = "parse_jd"
  /\ jd_parser_text' = jd_text
  /\ jd_data' = parse(jd_parser_text')
  /\ settings' = tables_after(settings, jd_parser_writes)
  /\ pc' = "extract_resume"
  /\ UNCHANGED <<completed, resume_file_text, resume_data, jd_text, resume_skills,
                 jd_skills, skill_comparison, match_result, gap_analysis,
                 learning_path, float_tie_up,
                 session, tmp_files>>

----------------------------------------------------------------------------
(* SkillExtractor.extract_from_jd *)

\* required.union(all_skills_set)
required_union(jd, all_skills_set) ==
  Range(get(jd, "required_skills", <<>>)) \cup all_skills_set

\* required after the union with the skills of the full text.
jd_required(jd) == required_union(jd, normalized_skills(get(jd, "raw_text", <<>>)))

\* The result for the two sets; seed gives the order in which
\* _categorize_skills iterates their union.
jd_skills_result(required, preferred, seed) ==
  [required_skills |-> sorted(required),
   preferred_skills |-> sorted(preferred),
   all_skills |-> sorted(required \cup preferred),
   categorized |-> _categorize_skills(set_iter(required \cup preferred, seed))]

extract_from_jd(jd, seed) ==
  jd_skills_result(jd_required(jd), Range(get(jd, "preferred_skills", <<>>)), seed)

\* The step of main that extracts the JD's skills.  The two sets do not
\* depend on the seed: they are computed once, as in extract_from_jd.
ExtractJdSkills ==
  /\ pc = "extract_jd"
  /\ \E extracted \in {normalized_skills(get(jd_data, "raw_text", <<>>))} :
       LET required == required_union(jd_data, extracted)
           preferred == Range(get(jd_data, "preferred_skills", <<>>))
       IN  \E seed \in HashSeeds :
             /\ jd_skills' = jd_skills_result(required, preferred, seed)
             /\ settings' = tables_after(settings,
                               categorize_writes(set_iter(extracted, seed))
                                 \o categorize_writes(set_iter(required \cup preferred, seed)))
  /\ pc' = "compare"
  /\ UNCHANGED <<completed, jd_parser_text, resume_file_text, resume_data, jd_text,
                 jd_data, resume_skills, skill_comparison, match_result,
                 gap_analysis, learning_path, float_tie_up,
                 session, tmp_files>>

----------------------------------------------------------------------------
(* LearningRecommender *)

\* _get_skill_recommendations without the loop over the partial matches.
get_skill_recommendations_exact_only(skill) ==
  LET skill_normalized == title(skill)
      exact == {i \in 1..Len(LEARNING_RESOURCES) :
                  LEARNING_RESOURCES[i].skill = skill_normalized}
  IN  IF exact # {} THEN LEARNING_RESOURCES[SetMin(exact)].resource
      ELSE DEFAULT_LEARNING_RESOURCE

_get_skill_recommendations(skill) ==
  LET skill_normalized == title(skill)
      exact == {i \in 1..Len(LEARNING_RESOURCES) :
                  LEARNING_RESOURCES[i].skill = skill_normalized}
      partial == {i \in 1..Len(LEARNING_RESOURCES) :
                    \/ contains(lower(LEARNING_RESOURCES[i].skill), lower(skill))
                    \/ contains(lower(skill), lower(LEARNING_RESOURCES[i].skill))}
  IN  IF exact # {} THEN LEARNING_RESOURCES[SetMin(exact)].resource
      ELSE IF partial # {} THEN LEARNING_RESOURCES[SetMin(partial)].resource
      ELSE DEFAULT_LEARNING_RESOURCE

_get_learning_tips(skill) ==
  LET skill_lower == lower(skill)
  IN  IF any_in(<<"python", "java", "javascript">>, skill_lower)
        THEN <<"Start with fundamentals and syntax",
               "Build small projects to practice",
               "Solve coding problems daily (LeetCode/HackerRank)",
               "Read others' code to learn best practices">>
      ELSE IF any_in(<<"react", "angular", "django", "node">>, skill_lower)
        THEN <<"Learn the underlying language first if needed",
               "Follow official documentation and tutorials",
               "Build a complete project using the framework",
               "Study popular open-source projects">>
      ELSE IF any_in(<<"aws", "azure", "gcp">>, skill_lower)
        THEN <<"Use free tier for hands-on practice",
               "Focus on core services first",
               "Get certified to validate knowledge",
               "Build and deploy real applications">>
      ELSE IF any_in(<<"docker", "kubernetes", "git">>, skill_lower)
        THEN <<"Learn through hands-on practice",
               "Integrate into your existing projects",
               "Understand the problem it solves",
               "Practice with real-world scenarios">>
      ELSE <<"Start with beginner-friendly tutorials",
             "Practice consistently (30-60 min daily)",
             "Build projects to apply knowledge",
             "Join communities for support">>

RECURSIVE sum(_)
sum(numbers) == IF numbers = <<>> THEN 0 ELSE Head(numbers) + sum(Tail(numbers))

\* _parse_time_to_weeks with the first number in place of the average.
parse_time_to_weeks_first_number(time_str) ==
  LET text == Str(time_str)
      starts == ascending(digit_runs(text))
      numbers == [i \in 1..Len(starts) |-> int_of(run_digits(text, starts[i]))]
  IN  IF numbers # <<>> THEN numbers[1] ELSE 2

\* time_str is a string of the model; the numbers are its runs of digits.
_parse_time_to_weeks(time_str) ==
  LET text == Str(time_str)
      starts == ascending(digit_runs(text))
      numbers == [i \in 1..Len(starts) |-> int_of(run_digits(text, starts[i]))]
  IN  IF numbers # <<>> THEN sum(numbers) \div Len(numbers) ELSE 2

_generate_learning_strategy(path) ==
  LET total_skills == Len(path)
      critical_count == Len(SelectSeq(path, LAMBDA item : item.priority = "Critical"))
  IN  IF total_skills = 0
        THEN "You're already well-matched! Focus on deepening existing skills."
      ELSE IF critical_count <= 2
        THEN "Focus intensively on " \o ToString(critical_count)
               \o " critical skill(s) first. Dedicate 2-3 hours daily for fastest results. Then explore nice-to-have skills."
      ELSE IF critical_count <= 4
        THEN "Moderate learning required. Prioritize " \o ToString(critical_count)
               \o " critical skills. Learn in parallel if possible (e.g., theory for one, practice for another). Allocate 3-4 weeks."
      ELSE "Significant learning ahead. Break it into phases: Master 2-3 foundational skills first, then build on them. Consider this a 2-3 month journey."

\* _create_milestones with every nice-to-have skill named, not the first 2.
create_milestones_all_named(path) ==
  LET critical_skills == SelectSeq(path, LAMBDA item : item.priority = "Critical")
      nice_to_have == SelectSeq(path, LAMBDA item : item.priority = "Nice-to-have")
      named == [i \in 1..Len(nice_to_have) |-> nice_to_have[i].skill]
  IN  IF path = <<>> THEN <<>>
      ELSE (IF critical_skills # <<>>
              THEN << [milestone |-> "Week 1-2",
                       goal |-> Str("Master ") \o critical_skills[1].skill,
                       action |-> Str("Complete primary course and build 1-2 small projects")] >>
              ELSE <<>>)
           \o (IF Len(critical_skills) > 1
                 THEN << [milestone |-> "Week 3-4",
                          goal |-> Str("Complete all " \o ToString(Len(critical_skills))
                                         \o " critical skills"),
                          action |-> Str("Build an integrated project using multiple skills")] >>
                 ELSE <<>>)
           \o (IF nice_to_have # <<>>
                 THEN << [milestone |-> "Week 5-6",
                          goal |-> Str("Add complementary skills"),
                          action |-> Str("Learn ") \o join(Str(", "), named)] >>
                 ELSE <<>>)
           \o << [milestone |-> "Final",
                  goal |-> Str("Apply for the role with confidence"),
                  action |-> Str("Update resume, build portfolio project, practice interviews")] >>

_create_milestones(path) ==
  LET critical_skills == SelectSeq(path, LAMBDA item : item.priority = "Critical")
      nice_to_have == SelectSeq(path, LAMBDA item : item.priority = "Nice-to-have")
      named == [i \in 1..Min(2, Len(nice_to_have)) |-> nice_to_have[i].skill]
  IN  IF path = <<>> THEN <<>>
      ELSE (IF critical_skills # <<>>
              THEN << [milestone |-> "Week 1-2",
                       goal |-> Str("Master ") \o critical_skills[1].skill,
                       action |-> Str("Complete primary course and build 1-2 small projects")] >>
              ELSE <<>>)
           \o (IF Len(critical_skills) > 1
                 THEN << [milestone |-> "Week 3-4",
                          goal |-> Str("Complete all " \o ToString(Len(critical_skills))
                                         \o " critical skills"),
                          action |-> Str("Build an integrated project using multiple skills")] >>
                 ELSE <<>>)
           \o (IF nice_to_have # <<>>
                 THEN << [milestone |-> "Week 5-6",
                          goal |-> Str("Add complementary skills"),
                          action |-> Str("Learn ") \o join(Str(", "), named)] >>
                 ELSE <<>>)
           \o << [milestone |-> "Final",
                  goal |-> Str("Apply for the role with confidence"),
                  action |-> Str("Update resume, build portfolio project, practice interviews")] >>

path_item(skill_item) ==
  LET recommendations == _get_skill_recommendations(skill_item.skill)
  IN  [skill |-> skill_item.skill,
       priority |-> skill_item.priority,
       rank |-> skill_item.rank,
       category |-> skill_item.category,
       estimated_time |-> skill_item.estimated_time,
       courses |-> recommendations.courses,
       practice_resources |-> recommendations.practice,
       learning_tips |-> _get_learning_tips(skill_item.skill)]

generate_learning_path(ga) ==
  LET priority_skills == get(ga, "priority_order", <<>>)
      path == [i \in 1..Len(priority_skills) |-> path_item(priority_skills[i])]
      total_estimated_time ==
        sum([i \in 1..Len(priority_skills) |->
               _parse_time_to_weeks(priority_skills[i].estimated_time)])
  IN  [learning_path |-> path,
       total_skills_to_learn |-> Len(path),
       estimated_total_time |-> ToString(total_estimated_time) \o " weeks",
       learning_strategy |-> _generate_learning_strategy(path),
       milestones |-> _create_milestones(path)]

\* The in-place operations of generate_learning_path: every item, a new
\* dict that holds the courses of the resource, is appended to the new list
\* learning_path.
learning_path_writes(ga) ==
  LET priority_skills == get(ga, "priority_order", <<>>)
  IN  [i \in 1..Len(priority_skills) |->
         in_place("learning_path", "", "append", path_item(priority_skills[i]))]

\* The step of main that generates the recommendations.
GenerateRecommendations ==
  /\ pc = "learn"
  /\ learning_path' = generate_learning_path(gap_analysis)
  /\ settings' = tables_after(settings, learning_path_writes(gap_analysis))
  /\ pc' = "done"
  /\ UNCHANGED <<completed, jd_parser_text, resume_file_text, resume_data, jd_text,
                 jd_data, resume_skills, jd_skills, skill_comparison, match_result,
                 gap_analysis, float_tie_up,
                 session, tmp_files>>

----------------------------------------------------------------------------
(* compare_skills on bounded lists of skill names *)

MaxSkills == 3

\* Skill names as a caller may spell them, some differing only in case.
CompareNames ==
  { Str("Python"), Str("python"),
    Str("Docker"), Str("AWS"), Str("aws"),
    Str("Java"), Str("Go") }

CompareLists ==
  {sorted(S) : S \in {T \in SUBSET CompareNames : Cardinality(T) <= MaxSkills}}

InitCompare ==
  /\ pc = "compare"
  /\ resume_file_text = None /\ jd_parser_text = <<>> /\ completed = <<>>
  /\ resume_skills \in {[all_skills |-> l] : l \in CompareLists}
  /\ jd_skills \in {[required_skills |-> l] : l \in CompareLists}
  /\ resume_data = None /\ jd_text = None /\ jd_data = None
  /\ skill_comparison = None /\ match_result = None
  /\ gap_analysis = None /\ learning_path = None
  /\ float_tie_up = FALSE
  /\ settings = ReferenceData /\ session = <<>> /\ tmp_files = <<>>

NextCompare == CompareSkills

SpecCompare == InitCompare /\ [][NextCompare]_vars

\* The lower-cased sets that the two argument lists of compare_skills denote.
CmpResumeSet == {lower(s) : s \in Range(resume_skills.all_skills)}
CmpJdSet == {lower(s) : s \in Range(jd_skills.required_skills)}
CmpDone == pc = "score"

\* C1: for every pair of skill lists, lower-cased, matched and missing
\* partition the JD required set, and extra is the resume skills that are not
\* in the JD set, disjoint from both.
C1_ComparePartition ==
  CmpDone =>
    LET matched == Range(skill_comparison.matched_skills)
        missing == Range(skill_comparison.missing_skills)
        extra == Range(skill_comparison.extra_skills)
    IN  /\ matched \cup missing = CmpJdSet
        /\ matched \cap missing = {}
        /\ extra \cap matched = {}
        /\ extra \cap missing = {}
        /\ extra = {s \in CmpResumeSet : s \notin CmpJdSet}

\* A comparison with matched, missing and extra skills, in which the resume
\* and the JD spell a common skill in different case.
C1_Witness ==
  /\ CmpDone
  /\ skill_comparison.matched_skills = << Str("python") >>
  /\ skill_comparison.missing_skills = << Str("aws") >>
  /\ skill_comparison.extra_skills = << Str("go") >>
  /\ Str("python") \in Range(resume_skills.all_skills)
  /\ Str("Python") \in Range(jd_skills.required_skills)

CmpExampleRequired ==
  { Str("Python"), Str("Docker"), Str("AWS") }
CmpExampleResume == { Str("Python"), Str("Docker") }

\* C2: match_percentage is |matched| / |JD set| * 100 to the nearest
\* hundredth and 0 for an empty JD set, so it is in [0,100], 100 for a resume
\* that covers a non-empty JD set and 66.67 for {Python, Docker} against
\* {Python, Docker, AWS}; matched_count and total_required are the sizes of
\* the matched set and of the JD set.
C2_MatchPercentage ==
  CmpDone =>
    LET m == Cardinality(CmpResumeSet \cap CmpJdSet)
        n == Cardinality(CmpJdSet)
        p == skill_comparison.match_percentage
    IN  /\ skill_comparison.matched_count = m
        /\ skill_comparison.matched_count = Len(skill_comparison.matched_skills)
        /\ skill_comparison.total_required = n
        /\ n = 0 => p = 0
        /\ n > 0 => /\ 2 * (p * n - 10000 * m) <= n
                    /\ 2 * (10000 * m - p * n) <= n
        /\ p >= 0 /\ p <= 10000
        /\ (n > 0 /\ CmpJdSet \subseteq CmpResumeSet) => p = 10000
        /\ ( /\ Range(jd_skills.required_skills) = CmpExampleRequired
             /\ Range(resume_skills.all_skills) = CmpExampleResume )
           => /\ p = 6667
              /\ skill_comparison.matched_skills =
                   << Str("docker"), Str("python") >>
              /\ skill_comparison.missing_skills = << Str("aws") >>

\* The comparison of {Python, Docker} with {Python, Docker, AWS}.
C2_Witness ==
  /\ CmpDone
  /\ Range(jd_skills.required_skills) = CmpExampleRequired
  /\ Range(resume_skills.all_skills) = CmpExampleResume
  /\ skill_comparison.match_percentage = 6667

----------------------------------------------------------------------------
(* extract_from_text on bounded texts *)

MaxPieces == 2

\* The pieces a text is made of: every alias, some skill names, other words
\* and separators.
ExtractPieces ==
  {SKILL_ALIASES[i].alias : i \in 1..Len(SKILL_ALIASES)} \cup
  { Str("java"), Str("script"),
    Str("Kubernetes"), Str("JS"),
    Str(" "), Str("_"), Str("x") }

RECURSIVE TextsOf(_, _)
TextsOf(pieces, n) ==
  IF n = 0 THEN {<<>>}
  ELSE LET shorter == TextsOf(pieces, n - 1)
       IN  shorter \cup {t \o p : t \in shorter, p \in pieces}

ExtractTexts == TextsOf(ExtractPieces, MaxPieces)

InitExtract ==
  /\ pc = "extract_resume"
  /\ resume_file_text = None /\ jd_parser_text = <<>> /\ completed = <<>>
  /\ resume_data \in
       {[raw_text |-> t, sections |-> <<>>] : t \in ExtractTexts} \cup
       {[raw_text |-> Str("Go"), sections |-> [skills |-> p]] : p \in ExtractPieces}
  /\ jd_text = None /\ jd_data = None /\ resume_skills = None /\ jd_skills = None
  /\ skill_comparison = None /\ match_result = None
  /\ gap_analysis = None /\ learning_path = None
  /\ float_tie_up = FALSE
  /\ settings = ReferenceData /\ session = <<>> /\ tmp_files = <<>>

NextExtract == ExtractResumeSkills

SpecExtract == InitExtract /\ [][NextExtract]_vars

ExtractDone == pc = "extract_jd"
\* The text that was searched.
ExtractText == resume_skill_text(resume_data)

\* word occurs in text at offset i, ignoring case, with no word character
\* (letter, digit, underscore) next to it on either side.
WholeWordAt(word, text, i) ==
  /\ i + Len(word) <= Len(text)
  /\ lower(SubSeq(text, i + 1, i + Len(word))) = lower(word)
  /\ i >= 1 => ~IsWordChar(text[i])
  /\ i + Len(word) + 1 <= Len(text) => ~IsWordChar(text[i + Len(word) + 1])

HasWholeWord(word, text) == \E i \in 0..Len(text) : WholeWordAt(word, text, i)

\* C6: a text that contains an alias as a whole word yields the alias's
\* canonical skill, whether or not the canonical name is in the text, and
\* every skill found by its own name is in the result.
C6_AliasesSupplement ==
  ExtractDone =>
    /\ \A i \in 1..Len(SKILL_ALIASES) :
         HasWholeWord(SKILL_ALIASES[i].alias, ExtractText)
           => SKILL_ALIASES[i].canonical \in Range(resume_skills.all_skills)
    /\ found_skills(ExtractText) \subseteq Range(resume_skills.all_skills)

\* The text "k8s": Kubernetes is extracted though its name is absent.
C6_Witness ==
  /\ ExtractDone
  /\ ExtractText = Str("k8s")
  /\ resume_skills.all_skills = << Str("Kubernetes") >>
  /\ resume_skills.devops_tools = << Str("Kubernetes") >>

IsAlnum(c) == IsLetter(c) \/ IsDigit(c)

\* word occurs in text, and each of its occurrences is a proper part of a
\* longer run of letters and digits.
OnlyInsideLongerWord(word, text) ==
  LET occ == {i \in 0..(Len(text) - Len(word)) :
                lower(SubSeq(text, i + 1, i + Len(word))) = lower(word)}
  IN  /\ occ # {}
      /\ \A k \in 1..Len(word) : IsAlnum(word[k])
      /\ \A i \in occ :
           \/ i >= 1 /\ IsAlnum(text[i])
           \/ i + Len(word) + 1 <= Len(text) /\ IsAlnum(text[i + Len(word) + 1])

AliasesOf(skill) ==
  {SKILL_ALIASES[i].alias : i \in {j \in 1..Len(SKILL_ALIASES) : SKILL_ALIASES[j].canonical = skill}}

\* C7: a skill name that occurs in the text only inside a longer alphanumeric
\* word is not found by its name; it is in the result only if one of its
\* aliases was found.
C7_WordBoundary ==
  ExtractDone =>
    \A skill \in Range(all_skills) :
      OnlyInsideLongerWord(skill, ExtractText) =>
        /\ skill \notin found_skills(ExtractText)
        /\ (\A a \in AliasesOf(skill) : ~HasWholeWord(a, ExtractText))
             => skill \notin Range(resume_skills.all_skills)

\* The text "javascript": JavaScript is extracted and Java is not.
C7_Witness ==
  /\ ExtractDone
  /\ ExtractText = Str("javascript")
  /\ OnlyInsideLongerWord(Str("Java"), ExtractText)
  /\ resume_skills.all_skills = << Str("JavaScript") >>

----------------------------------------------------------------------------
(* calculate_match_score on bounded resumes, JDs and comparisons *)

MaxRequired == 7
MaxWords == 9
MaxResumeWords == 3
MaxYears == 6

ScoreSkillNames ==
  <<Str("Python"), Str("Docker"), Str("AWS"), Str("React"), Str("Git"),
    Str("MySQL"), Str("Flask"), Str("Redis"), Str("Azure")>>

Prefix(l, n) == SubSeq(l, 1, Min(n, Len(l)))

\* The comparisons of a resume that has k of the n skills a JD requires.
ScoreComparisons ==
  {compare_skills(Prefix(ScoreSkillNames, kn[1]), Prefix(ScoreSkillNames, kn[2])) :
     kn \in {x \in (0..MaxRequired) \X (0..MaxRequired) : x[1] <= x[2]}}

\* The words of the texts; some are too short for the semantic score to
\* count them and some are among its common words.
ScoreWords ==
  <<Str("Python"), Str("developer"), Str("Docker"), Str("with"), Str("cloud"),
    Str("backend"), Str("and"), Str("services"), Str("testing"),
    Str("deployment"), Str("monitoring"), Str("years")>>

ScoreText(n) == join(Str(" "), Prefix(ScoreWords, n))

\* experience_required as the JD parser writes it.
ScoreRequirements ==
  {Str("Not specified"), Str("3+ years"), Str("0-1 years (Fresher)"),
   Str("2-4 years"), Str("10+ years")}

\* <<education of the resume, education_required of the JD>>
ScoreEducations ==
  { <<<<Str("Bachelor of Science")>>, Str("Not specified")>>,
    <<<<Str("BACHELOR of Science"), Str("MBA")>>, Str("B.Tech, Bachelor")>>,
    <<<<Str("B.Tech in Computing")>>, Str("Master")>>,
    <<<<>>, Str("PhD")>> }

\* <<experience_years, experience_required>>
ScoreExperiences ==
  { <<6, Str("3+ years")>>, <<0, Str("3+ years")>>, <<2, Str("Not specified")>> }

ScoreResume(years, education, words) ==
  [raw_text |-> ScoreText(words), education |-> education, experience_years |-> years]
ScoreJd(required, education, words) ==
  [raw_text |-> ScoreText(words), experience_required |-> required,
   education_required |-> education]

\* Either the comparison, the education and the texts vary, or the
\* experience does.
InitScore ==
  /\ pc = "score"
  /\ resume_file_text = None /\ jd_parser_text = <<>> /\ completed = <<>>
  /\ \/ \E sc \in ScoreComparisons, x \in ScoreExperiences, e \in ScoreEducations,
          r \in 0..MaxResumeWords, j \in 0..MaxWords :
          /\ skill_comparison = sc
          /\ resume_data = ScoreResume(x[1], e[1], r)
          /\ jd_data = ScoreJd(x[2], e[2], j)
     \/ \E years \in (0 - MaxYears)..MaxYears, required \in ScoreRequirements,
          sc \in {c \in ScoreComparisons : c.total_required = 2} :
          /\ skill_comparison = sc
          /\ resume_data = ScoreResume(years, <<>>, 2)
          /\ jd_data = ScoreJd(required, Str("Not specified"), 2)
  /\ jd_text = None /\ resume_skills = None /\ jd_skills = None
  /\ match_result = None /\ gap_analysis = None /\ learning_path = None
  /\ float_tie_up \in BOOLEAN
  /\ settings = ReferenceData /\ session = <<>> /\ tmp_files = <<>>

NextScore == CalculateMatch

SpecScore == InitScore /\ [][NextScore]_vars

ScoreDone == pc = "gaps"

Abs(x) == IF x >= 0 THEN x ELSE 0 - x

\* Match percentages around the bonus threshold, with those of the
\* comparisons.
ScorePercentages ==
  {sc.match_percentage : sc \in ScoreComparisons} \cup {7999, 8000, 8001, 8999, 9000, 9001}

\* C3: the configured weights are 0.50, 0.20, 0.15 and 0.15; overall_score
\* is in [0,100] and is the weighted sum of the four component scores (to the
\* nearest hundredth); every breakdown value is in [0,100]; with the other
\* three components fixed, a larger match percentage gives a skills score and
\* an overall score that are not smaller.
C3_WeightedScore ==
  ScoreDone =>
    LET skills == _calculate_skills_score(skill_comparison)
        experience == _calculate_experience_score(resume_data, jd_data)
        education == _calculate_education_score(resume_data, jd_data)
        semantic == _calculate_semantic_score(resume_data, jd_data)
        total == RatAdd(RatAdd(RatTimes(skills, 1, 2), RatTimes(experience, 1, 5)),
                        RatAdd(RatTimes(education, 3, 20), RatTimes(semantic, 3, 20)))
        overall == match_result.overall_score
        b == match_result.breakdown
    IN  /\ match_result.weights_used =
             [skills_match |-> 50, experience_match |-> 20,
              education_match |-> 15, semantic_similarity |-> 15]
        /\ overall >= 0 /\ overall <= 10000
        /\ 2 * Abs(overall * total.den - 100 * total.num) <= total.den
        /\ 2 * Abs(b.semantic_similarity * semantic.den - 100 * semantic.num)
             <= semantic.den
        /\ b.skills_match * skills.den = 100 * skills.num
        /\ Abs(100 * overall - (50 * b.skills_match + 20 * b.experience_match
                                  + 15 * b.education_match
                                  + 15 * b.semantic_similarity)) <= 100
        /\ \A f \in DOMAIN b : b[f] >= 0 /\ b[f] <= 10000
        /\ \A p \in ScorePercentages :
             p >= skill_comparison.match_percentage =>
               LET more == _calculate_skills_score([match_percentage |-> p])
               IN  /\ RatLeq(skills, more)
                   /\ p > skill_comparison.match_percentage =>
                        \A up \in BOOLEAN :
                          round2(weighted_score(more, experience, education, semantic), up)
                            >= overall

\* A score with the bonus: 6 of 7 skills matched, 85.71 + 10.
C3_Witness ==
  /\ ScoreDone
  /\ skill_comparison.match_percentage = 8571
  /\ match_result.breakdown.skills_match = 9571
  /\ match_result.breakdown.semantic_similarity = 5143
  /\ match_result.overall_score < 10000

FitBand(hundredths) ==
  IF hundredths >= 8500 THEN "Excellent Fit"
  ELSE IF hundredths >= 7000 THEN "Good Fit"
  ELSE IF hundredths >= 5500 THEN "Moderate Fit"
  ELSE IF hundredths >= 4000 THEN "Below Average Fit"
  ELSE "Poor Fit"

\* C4: fit_level is the band of the overall_score that the result reports:
\* Excellent from 85, Good from 70, Moderate from 55, Below Average from 40,
\* else Poor.
C4_FitLevelOfReportedScore ==
  ScoreDone => match_result.fit_level = FitBand(match_result.overall_score)

\* The number that the claim calls required, for each experience_required.
RequiredYears(s) ==
  CASE s = Str("Not specified") -> 0
    [] s = Str("3+ years") -> 3
    [] s = Str("0-1 years (Fresher)") -> 0
    [] s = Str("2-4 years") -> 2
    [] s = Str("10+ years") -> 10

\* C8: experience_score is 100 or 80 for a JD that requires no experience
\* (resume at most 2 years, or more), 100 or 90 for a resume that has the
\* required years (at most 2 more, or more), and 70, 50 or 30 for one that
\* lacks 1, 2 or more years.
C8_ExperienceScore ==
  ScoreDone =>
    LET required == RequiredYears(jd_data.experience_required)
        resume == resume_data.experience_years
        score == match_result.breakdown.experience_match
    IN  /\ required = 0 => score = (IF resume <= 2 THEN 10000 ELSE 8000)
        /\ (required # 0 /\ resume >= required)
             => score = (IF resume <= required + 2 THEN 10000 ELSE 9000)
        /\ (required # 0 /\ resume < required)
             => score = (IF required - resume <= 1 THEN 7000
                         ELSE IF required - resume <= 2 THEN 5000 ELSE 3000)
        /\ (required = 3 /\ resume = 6) => score = 9000
        /\ (required = 3 /\ resume = 5) => score = 10000

\* 3 years required, 6 on the resume: 90.
C8_Witness ==
  /\ ScoreDone
  /\ jd_data.experience_required = Str("3+ years")
  /\ resume_data.experience_years = 6
  /\ match_result.breakdown.experience_match = 9000

----------------------------------------------------------------------------
(* analyze_gaps on bounded comparisons and JDs *)

MaxGaps == 7

GapSkillNames ==
  <<Str("Python"), Str("Node.js"), Str("AWS"), Str("C++"), Str("CI/CD"),
    Str("REST API"), Str("Docker"), Str("MySQL"), Str("Figma"), Str("Kubernetes")>>

\* The comparisons of a resume that has the first i of the first j names.
GapComparisons ==
  {compare_skills(Prefix(GapSkillNames, ij[1]), Prefix(GapSkillNames, ij[2])) :
     ij \in {x \in (0..MaxGaps) \X (0..MaxGaps) : x[1] <= x[2]}}

\* required_skills of the JD parser: a run of the names, which need not be
\* the list that the comparison was made with.
GapRequired ==
  {SubSeq(GapSkillNames, ab[1], ab[2]) :
     ab \in {x \in (1..(MaxGaps + 1)) \X (0..MaxGaps) : x[1] <= x[2] + 1}}

GapPreferred ==
  { <<>>, <<GapSkillNames[1]>>, <<GapSkillNames[2], GapSkillNames[MaxGaps]>>,
    Prefix(GapSkillNames, MaxGaps - 3) }

InitGap ==
  /\ pc = "gaps"
  /\ resume_file_text = None /\ jd_parser_text = <<>> /\ completed = <<>>
  /\ skill_comparison \in GapComparisons
  /\ \E required \in GapRequired, preferred \in GapPreferred :
       jd_data = [required_skills |-> required, preferred_skills |-> preferred]
  /\ resume_data = None /\ jd_text = None /\ resume_skills = None /\ jd_skills = None
  /\ match_result = None /\ gap_analysis = None /\ learning_path = None
  /\ float_tie_up = FALSE
  /\ settings = ReferenceData /\ session = <<>> /\ tmp_files = <<>>

NextGap == AnalyzeGaps

SpecGap == InitGap /\ [][NextGap]_vars

GapDone == pc = "learn"

\* C9: gap_summary is the 'Excellent!' sentence exactly when critical_gaps
\* and nice_to_have_gaps are both empty, which is exactly when missing_skills
\* is empty; otherwise the template is chosen by the number of critical gaps:
\* 0 (with nice-to-have gaps), 1-2, 3-5, more than 5.
C9_GapSummary ==
  GapDone =>
    LET critical == Len(gap_analysis.critical_gaps)
        nice == Len(gap_analysis.nice_to_have_gaps)
        summary == gap_analysis.gap_summary
        excellent == "Excellent! You have all the required skills for this role."
    IN  /\ (summary = excellent) <=> (critical = 0 /\ nice = 0)
        /\ (critical = 0 /\ nice = 0) <=> (skill_comparison.missing_skills = <<>>)
        /\ (critical = 0 /\ nice > 0) =>
             summary = "You have all critical skills! " \o ToString(nice)
                         \o " nice-to-have skill(s) could strengthen your profile."
        /\ (critical >= 1 /\ critical <= 2) =>
             summary = "You're close! Focus on " \o ToString(critical)
                         \o " critical skill(s) to significantly improve your fit."
        /\ (critical >= 3 /\ critical <= 5) =>
             summary = "Moderate gaps detected. " \o ToString(critical)
                         \o " critical skills need attention. Plan 3-4 weeks of focused learning."
        /\ critical > 5 =>
             summary = "Significant gaps found. " \o ToString(critical)
                         \o " critical skills missing. This role might be a stretch goal - consider building fundamentals first."

\* Six critical gaps and a nice-to-have one: the last template.
C9_Witness ==
  /\ GapDone
  /\ Len(gap_analysis.critical_gaps) = 6
  /\ Len(gap_analysis.nice_to_have_gaps) = 1
  /\ gap_analysis.gap_summary =
       "Significant gaps found. 6 critical skills missing. This role might be a stretch goal - consider building fundamentals first."

\* The skills of a list of gap items or priority items.
SkillsOf(items) == [i \in 1..Len(items) |-> items[i].skill]

\* C12: priority_order is the first 5 critical gaps, in their order, as
\* 'Critical' items, followed by the first 3 nice-to-have gaps, in their
\* order, as 'Nice-to-have' items: at most 8 items, and the item at
\* position i has rank i.
C12_PriorityOrder ==
  GapDone =>
    LET order == gap_analysis.priority_order
        critical == gap_analysis.critical_gaps
        nice == gap_analysis.nice_to_have_gaps
        nc == Min(5, Len(critical))
        nn == Min(3, Len(nice))
    IN  /\ Len(order) = nc + nn
        /\ Len(order) <= 8
        /\ SkillsOf(SubSeq(order, 1, nc)) = SkillsOf(SubSeq(critical, 1, nc))
        /\ SkillsOf(SubSeq(order, nc + 1, nc + nn)) = SkillsOf(SubSeq(nice, 1, nn))
        /\ \A i \in 1..Len(order) :
             /\ order[i].priority = (IF i <= nc THEN "Critical" ELSE "Nice-to-have")
             /\ order[i].rank = i

\* Seven critical gaps and four nice-to-have ones: both lists are cut, to 5
\* and to 3 items.
C12_Witness ==
  /\ GapDone
  /\ Len(gap_analysis.critical_gaps) = 7
  /\ Len(gap_analysis.nice_to_have_gaps) = 4
  /\ Len(gap_analysis.priority_order) = 8
  /\ gap_analysis.priority_order[6].rank = 6
  /\ gap_analysis.priority_order[6].priority = "Nice-to-have"

\* The positions of priority_order that hold its first Nice-to-have item.
FirstNiceToHave(order) ==
  {i \in 1..Len(order) :
     /\ order[i].priority = "Nice-to-have"
     /\ \A j \in 1..(i - 1) : order[j].priority = "Critical"}

\* C13 as stated: the first Nice-to-have item of every priority_order has
\* rank 6.
C13_NiceToHaveFromSix ==
  GapDone =>
    \A i \in FirstNiceToHave(gap_analysis.priority_order) :
      gap_analysis.priority_order[i].rank = 6

\* C13, amended: the first Nice-to-have item of priority_order has the rank
\* that follows the ranks of the Critical items, one more than their number
\* (at most 5); it is 6 exactly when priority_order has 5 Critical items.
C13_NiceToHaveContinues ==
  GapDone =>
    LET order == gap_analysis.priority_order
        criticals == Cardinality({j \in 1..Len(order) : order[j].priority = "Critical"})
    IN  \A i \in FirstNiceToHave(order) :
          /\ criticals <= 5
          /\ order[i].rank = criticals + 1
          /\ (order[i].rank = 6) <=> (criticals = 5)

\* Two critical gaps: the first nice-to-have item has rank 3.
C13_Witness ==
  /\ GapDone
  /\ Len(gap_analysis.critical_gaps) = 2
  /\ Len(gap_analysis.priority_order) >= 3
  /\ gap_analysis.priority_order[3].priority = "Nice-to-have"
  /\ gap_analysis.priority_order[3].rank = 3

\* C14: critical_gaps holds the missing skills whose lower case is in the
\* lower-cased required_skills of the JD, nice_to_have_gaps those whose lower
\* case is in the preferred_skills or is not in the required_skills, both in
\* the order of missing_skills; every missing skill is in one of the two,
\* and total_gaps is the number of missing skills.
C14_GapLists ==
  GapDone =>
    LET missing == skill_comparison.missing_skills
        required == lower_set(jd_data.required_skills)
        preferred == lower_set(jd_data.preferred_skills)
        critical == SelectSeq(missing, LAMBDA skill : lower(skill) \in required)
        nice == SelectSeq(missing, LAMBDA skill :
                            lower(skill) \in preferred \/ lower(skill) \notin required)
    IN  /\ SkillsOf(gap_analysis.critical_gaps) = [i \in 1..Len(critical) |-> title(critical[i])]
        /\ SkillsOf(gap_analysis.nice_to_have_gaps) = [i \in 1..Len(nice) |-> title(nice[i])]
        /\ \A i \in 1..Len(missing) :
             title(missing[i]) \in Range(SkillsOf(gap_analysis.critical_gaps))
                                    \cup Range(SkillsOf(gap_analysis.nice_to_have_gaps))
        /\ gap_analysis.total_gaps = Len(missing)
        /\ gap_analysis.total_gaps
             <= Len(gap_analysis.critical_gaps) + Len(gap_analysis.nice_to_have_gaps)

\* A missing skill that is required and preferred is in both lists, one
\* that is required only is critical only, and one that is neither is
\* nice-to-have.
C14_Witness ==
  /\ GapDone
  /\ \E i, j, k \in 1..Len(skill_comparison.missing_skills) :
       LET missing == skill_comparison.missing_skills
           required == lower_set(jd_data.required_skills)
           preferred == lower_set(jd_data.preferred_skills)
       IN  /\ lower(missing[i]) \in required \cap preferred
           /\ lower(missing[j]) \in required \ preferred
           /\ lower(missing[k]) \notin required \cup preferred
  /\ gap_analysis.total_gaps
       < Len(gap_analysis.critical_gaps) + Len(gap_analysis.nice_to_have_gaps)
  /\ Len(gap_analysis.critical_gaps) >= 2
  /\ Len(gap_analysis.nice_to_have_gaps) >= 2

----------------------------------------------------------------------------
(* The learning time of every skill: analyze_gaps on one missing skill *)

\* The buckets of the learning-time heuristic as the specification lists
\* them, in the order in which they are tested.
LearningTimeBuckets ==
  << [time |-> "4-6 weeks", keywords |-> <<"python", "java", "javascript", "c++", "go">>],
     [time |-> "2-4 weeks", keywords |-> <<"react", "angular", "django", "spring", "node">>],
     [time |-> "1-2 weeks", keywords |-> <<"docker", "git", "aws", "kubernetes">>],
     [time |-> "2-3 weeks", keywords |-> <<"sql", "mongodb", "postgresql", "mysql">>] >>

\* The skills of the reference data and the keywords of the buckets.
EstimateSkills ==
  Range(all_skills)
    \cup UNION {{Str(LearningTimeBuckets[b].keywords[k]) :
                   k \in 1..Len(LearningTimeBuckets[b].keywords)} :
                 b \in 1..Len(LearningTimeBuckets)}

\* The one skill is missing; the JD parser has it as required or not.
InitEstimate ==
  /\ pc = "gaps"
  /\ resume_file_text = None /\ jd_parser_text = <<>> /\ completed = <<>>
  /\ \E skill \in EstimateSkills :
       /\ skill_comparison = compare_skills(<<>>, <<skill>>)
       /\ jd_data \in {[required_skills |-> required, preferred_skills |-> <<>>] :
                          required \in {<<>>, <<skill>>}}
  /\ resume_data = None /\ jd_text = None /\ resume_skills = None /\ jd_skills = None
  /\ match_result = None /\ gap_analysis = None /\ learning_path = None
  /\ float_tie_up = FALSE
  /\ settings = ReferenceData /\ session = <<>> /\ tmp_files = <<>>

NextEstimate == AnalyzeGaps

SpecEstimate == InitEstimate /\ [][NextEstimate]_vars

EstimateDone == pc = "learn"

\* The buckets one of whose keywords is a substring of the lower-cased name.
BucketsOf(skill) ==
  {b \in 1..Len(LearningTimeBuckets) :
     \E k \in 1..Len(LearningTimeBuckets[b].keywords) :
       contains(lower(skill), Str(LearningTimeBuckets[b].keywords[k]))}

\* C19: the estimated time of a skill is the time of the first bucket, in
\* the order languages, frameworks, infra tools, databases, one of whose
\* keywords is a substring of the lower-cased skill name, and '2-3 weeks'
\* when no bucket has such a keyword.
C19_FirstBucketWins ==
  EstimateDone =>
    \A i \in 1..Len(gap_analysis.priority_order) :
      LET item == gap_analysis.priority_order[i]
          buckets == BucketsOf(item.skill)
      IN  item.estimated_time =
            IF buckets = {} THEN "2-3 weeks"
            ELSE LearningTimeBuckets[SetMin(buckets)].time

\* 'Github' has a keyword of the third bucket alone, and 'Javascript' has
\* two keywords of the first; here a name with keywords of two buckets gets
\* the time of the first of them.
C19_Witness ==
  /\ EstimateDone
  /\ Len(gap_analysis.priority_order) = 1
  /\ Cardinality(BucketsOf(gap_analysis.priority_order[1].skill)) = 2
  /\ 2 \in BucketsOf(gap_analysis.priority_order[1].skill)
  /\ gap_analysis.priority_order[1].priority = "Critical"
  /\ gap_analysis.priority_order[1].estimated_time = "4-6 weeks"

\* C20: every keyword of the frameworks is estimated at '2-4 weeks', every
\* keyword of the infra tools at '1-2 weeks' and every keyword of the
\* databases at '2-3 weeks'.
C20_KeywordsGetTheirBucket ==
  EstimateDone =>
    \A i \in 1..Len(gap_analysis.priority_order), b \in 2..Len(LearningTimeBuckets) :
      LET item == gap_analysis.priority_order[i]
      IN  (\E k \in 1..Len(LearningTimeBuckets[b].keywords) :
             lower(item.skill) = Str(LearningTimeBuckets[b].keywords[k]))
            => item.estimated_time = LearningTimeBuckets[b].time

----------------------------------------------------------------------------
(* JDParser.parse on bounded job descriptions *)

MaxJdLines == 3

\* The lines of the job descriptions: headers, lines that name skills, a
\* line of more than 8 words with 'nice to have', a line of at most 8 words
\* with 'plus', and the empty line.
JdLines ==
  {Str("Required Skills"), Str("Preferred"), Str("Benefits"), Str(""),
   Str("Python and Docker"), Str("React is a plus"),
   Str("AWS would be nice to have for this senior role")}

JdTexts ==
  UNION {{join(Str("\n"), t) : t \in [1..n -> JdLines]} : n \in 1..MaxJdLines}

InitJd ==
  /\ pc = "parse_jd"
  /\ jd_parser_text = <<>> /\ completed = <<>>
  /\ resume_file_text = None /\ resume_data = None
  /\ jd_text \in JdTexts
  /\ jd_data = None
  /\ resume_skills = None /\ jd_skills = None /\ skill_comparison = None
  /\ match_result = None /\ gap_analysis = None /\ learning_path = None
  /\ float_tie_up = FALSE
  /\ settings = ReferenceData /\ session = <<>> /\ tmp_files = <<>>

NextJd == ParseJd

SpecJd == InitJd /\ [][NextJd]_vars

JdDone == pc = "extract_resume"

\* text has a line of at most 8 words in which one of words occurs,
\* ignoring case.
HasHeaderLine(text, words) ==
  \E i \in 1..Len(split_lines(text)) :
    LET line == split_lines(text)[i]
    IN  /\ word_count(line) <= 8
        /\ \E w \in 1..Len(words) : contains(lower(line), Str(words[w]))

\* The skills of the reference data that text names as whole words, sorted.
SkillsNamedIn(text) == sorted({skill \in Range(all_skills) : HasWholeWord(skill, text)})

\* C18: without a line of at most 8 words that matches the preferred header
\* pattern, preferred_skills is empty whatever the text names; without a
\* required header line, or with an empty required section, required_skills
\* holds the skills that the whole text names.
C18_PreferredNeverInferred ==
  JdDone =>
    /\ ~HasHeaderLine(jd_text, <<"preferred", "nice to have", "bonus", "plus">>)
         => jd_data.preferred_skills = <<>>
    /\ (\/ ~HasHeaderLine(jd_text, <<"required", "must have", "essential", "qualifications">>)
        \/ _extract_section(jd_text, required_pattern) = <<>>)
         => jd_data.required_skills = SkillsNamedIn(jd_text)

\* The text names skills and says 'nice to have' in a line of more than 8
\* words; it has a required header whose section is empty, and no preferred
\* header.
C18_Witness ==
  /\ JdDone
  /\ contains(lower(jd_text), Str("nice to have"))
  /\ ~HasHeaderLine(jd_text, <<"preferred", "nice to have", "bonus", "plus">>)
  /\ HasHeaderLine(jd_text, <<"required", "must have", "essential", "qualifications">>)
  /\ _extract_section(jd_text, required_pattern) = <<>>
  /\ jd_data.preferred_skills = <<>>
  /\ Len(jd_data.required_skills) = 3

----------------------------------------------------------------------------
(* parse_file on bounded resume texts *)

MaxResumePieces == 4
MaxDigits == 8

\* The pieces of the texts that state experience, and the lines of the texts
\* that have sections.
ExperiencePieces ==
  {Str("2020"), Str("2023"), Str("-"), Str(" "), Str("Present"), Str("3"),
   Str("+"), Str("years"), <<EnDash>>}
ResumeLines ==
  {Str("Skills"), Str("Python, Docker"), Str("Education"), Str("B.Tech in CS")}

\* int() has no upper limit; the numbers of the texts have at most MaxDigits
\* digits.
ResumeTexts ==
  {text \in UNION {{Concat(t) : t \in [1..n -> ExperiencePieces]} \cup
                   {join(Str("\n"), t) : t \in [1..n -> ResumeLines]} :
                     n \in 0..MaxResumePieces} :
     \A i \in digit_runs(text) : digits_end(text, i) - i < MaxDigits}

InitResume ==
  /\ pc = "parse_resume"
  /\ jd_parser_text = <<>> /\ completed = <<>>
  /\ resume_file_text \in ResumeTexts
  /\ resume_data = None /\ jd_text = None /\ jd_data = None
  /\ resume_skills = None /\ jd_skills = None /\ skill_comparison = None
  /\ match_result = None /\ gap_analysis = None /\ learning_path = None
  /\ float_tie_up = FALSE
  /\ settings = ReferenceData /\ session = <<>> /\ tmp_files = <<>>

NextResume == ParseResume

SpecResume == InitResume /\ [][NextResume]_vars

ResumeDone == pc = "parse_jd"

\* C10: the experience_years that the resume parser produces is a
\* non-negative number, for every resume text.
C10_ExperienceNonNegative ==
  ResumeDone => resume_data.experience_years >= 0

\* A date range as the specification writes it, at index i of text: a year,
\* a hyphen or an en dash, and a year or Present or Current.  <<the years of
\* the range, the index after it>>, or <<>> without one.
RangeSeparators == {"-", EnDash}

RangeAt(text, i) ==
  IF ~year_at(text, i) THEN <<>>
  ELSE LET sep == skip_space(text, i + 4)
           k == skip_space(text, sep + 1)
           start == int_of(SubSeq(text, i, i + 3))
       IN  IF ~(sep <= Len(text) /\ text[sep] \in RangeSeparators) THEN <<>>
           ELSE IF year_at(text, k)
             THEN <<int_of(SubSeq(text, k, k + 3)) - start, k + 4>>
           ELSE IF word_at(Str("Present"), text, k) \/ word_at(Str("Current"), text, k)
             THEN <<2024 - start, k + 7>>
           ELSE <<>>

\* The years of the date ranges of text from index i on, left to right.
RECURSIVE RangeYears(_, _)
RangeYears(text, i) ==
  IF i > Len(text) THEN <<>>
  ELSE LET m == RangeAt(text, i)
       IN  IF m = <<>> THEN RangeYears(text, i + 1)
           ELSE <<m[1]>> \o RangeYears(text, m[2])

\* C11: when the resume text has a date range 'YYYY-YYYY|Present|Current'
\* (hyphen or en dash), experience_years is the sum of end - start over the
\* ranges, Present and Current being 2024, whatever 'N years' the text
\* states; without a date range it is the maximum of the explicit numbers
\* of years, or 0 without any.
C11_DateRangesTakePrecedence ==
  ResumeDone =>
    LET ranges == RangeYears(resume_file_text, 1)
        years == experience_numbers(resume_file_text)
    IN  resume_data.experience_years =
          IF ranges # <<>> THEN sum(ranges)
          ELSE IF years # {} THEN SetMax(years) ELSE 0

----------------------------------------------------------------------------
(* The stages of main, request after request *)

MaxRuns == 2

PipelineResumes ==
  {Str("Skills\nPython, Java, Docker\nExperience\n2020 - 2023\nB.Tech in CS"),
   Str("React developer with 5 years of work\nMBA")}

PipelineJds ==
  {Str("Senior Python Developer\nRequired Skills\nPython, Java, AWS, Docker\n3+ years of experience\nPreferred\nReact\nB.Tech degree"),
   Str("Data Analyst wanted\nMySQL and Python, fresher")}

\* What a request is given, and what its stages have produced.
RequestInput == [resume_text |-> resume_file_text, jd |-> jd_text]
RequestOutput ==
  [resume_data |-> resume_data, jd_data |-> jd_data, resume_skills |-> resume_skills,
   jd_skills |-> jd_skills, skill_comparison |-> skill_comparison,
   match_result |-> match_result, gap_analysis |-> gap_analysis,
   learning_path |-> learning_path]

Init ==
  /\ pc = "parse_resume"
  /\ resume_file_text \in PipelineResumes
  /\ jd_text \in PipelineJds
  /\ jd_parser_text = <<>> /\ completed = <<>>
  /\ resume_data = None /\ jd_data = None
  /\ resume_skills = None /\ jd_skills = None /\ skill_comparison = None
  /\ match_result = None /\ gap_analysis = None /\ learning_path = None
  /\ float_tie_up \in BOOLEAN
  /\ settings = ReferenceData /\ session = <<>> /\ tmp_files = <<>>

\* The next request: its stages run again from the start, on an input that
\* may be one of an earlier request, with the parser left as it is.
NextRequest ==
  /\ pc = "done"
  /\ Len(completed) < MaxRuns
  /\ completed' = Append(completed, [input |-> RequestInput, output |-> RequestOutput])
  /\ resume_file_text' \in PipelineResumes
  /\ jd_text' \in PipelineJds
  /\ pc' = "parse_resume"
  /\ resume_data' = None /\ jd_data' = None
  /\ resume_skills' = None /\ jd_skills' = None /\ skill_comparison' = None
  /\ match_result' = None /\ gap_analysis' = None /\ learning_path' = None
  /\ UNCHANGED <<jd_parser_text, float_tie_up,
                 session, tmp_files, settings>>

Next ==
  \/ ParseResume
  \/ ParseJd
  \/ ExtractResumeSkills
  \/ ExtractJdSkills
  \/ CompareSkills
  \/ CalculateMatch
  \/ AnalyzeGaps
  \/ GenerateRecommendations
  \/ NextRequest

Spec == Init /\ [][Next]_vars

\* C5: the stages (parse the JD, extract the skills, compare, score, analyze
\* the gaps, generate the learning path) give the results of an earlier
\* request whenever they run on the resume and the JD text of that request,
\* also when the parser has processed a different input in between.
C5_Determinism ==
  pc = "done" =>
    \A r \in 1..Len(completed) :
      completed[r].input = RequestInput => completed[r].output = RequestOutput

\* The third request has the input of the first and not of the second; the
\* resume has two skills of one category and the learning path is not empty.
C5_Witness ==
  /\ pc = "done"
  /\ Len(completed) = 2
  /\ completed[1].input = RequestInput
  /\ completed[2].input.resume_text # resume_file_text
  /\ completed[2].input.jd # jd_text
  /\ completed[1].output = RequestOutput
  /\ Len(resume_skills.programming_languages) = 2
  /\ learning_path.total_skills_to_learn > 0

\* C17: no stage modifies the reference data: SKILL_CATEGORIES,
\* SKILL_ALIASES, LEARNING_RESOURCES, DEFAULT_LEARNING_RESOURCE and
\* SCORING_WEIGHTS have, after every sequence of stages, the contents that
\* config/settings.py gives them.
C17_ReferenceDataUnchanged == settings = ReferenceData

\* A second request has finished: skills have been appended to the lists of
\* categorized and sorted, the learning path holds the courses of a resource
\* of LEARNING_RESOURCES, and the match result holds the weights.
C17_Witness ==
  /\ pc = "done"
  /\ Len(completed) = 1
  /\ settings = ReferenceData
  /\ Len(resume_skills.programming_languages) = 2
  /\ Len(jd_skills.categorized.programming_languages) = 2
  /\ learning_path.total_skills_to_learn > 0
  /\ \E i \in 1..Len(LEARNING_RESOURCES) :
       learning_path.learning_path[1].courses = LEARNING_RESOURCES[i].resource.courses
  /\ match_result.weights_used = SCORING_WEIGHTS

(***************************************************************************)
(* The application: main of app.py, run by every browser session.  The     *)
(* sessions are threads of one process: each has its own locals, and all   *)
(* of them write to the one directory /tmp.                                *)
(***************************************************************************)
MaxSessions == 2
Sessions == 1..MaxSessions

\* An uploaded file: its name, and what its bytes hold (the text a reader
\* extracts, and whether PyPDF2 or python-docx can read them at all).
Upload(name, text, readable) ==
  [name |-> Str(name), content |-> [text |-> Str(text), readable |-> readable]]

AppUploads ==
  {None,
   Upload("resume.pdf", "Skills\nPython, Java\n3 years of experience", TRUE),
   Upload("resume.pdf", "React and AWS\nMBA", TRUE),
   Upload("cv.docx", "", FALSE)}

\* The text area: left empty, filled with a short text and blanks, or with
\* a job description.
AppJdTexts ==
  {<<>>,
   Str("Python developer                                        "),
   Str("Required Skills\nPython, Java and AWS\n3+ years of experience")}

TempNames == {u.name : u \in AppUploads \ {None}}

endswith(s, suffix) ==
  /\ Len(s) >= Len(suffix)
  /\ SubSeq(s, Len(s) - Len(suffix) + 1, Len(s)) = suffix

\* What st.error shows.
Message(text) == [message |-> text]

\* The checks of main with the JD's length taken before stripping.
input_error_unstripped(resume_file, text) ==
  IF resume_file = None THEN Message("Please upload your resume")
  ELSE IF text = <<>> \/ Len(text) < 50
       THEN Message("Please provide a valid job description (minimum 50 characters)")
  ELSE None

\* The checks of main before the analysis: the message of st.error, or None.
input_error(resume_file, text) ==
  IF resume_file = None THEN Message("Please upload your resume")
  ELSE IF text = <<>> \/ Len(strip(text)) < 50
       THEN Message("Please provide a valid job description (minimum 50 characters)")
  ELSE None

\* ResumeParser.parse_file on the file of that name in /tmp: what it raises,
\* or what it returns.
parse_file(files, name) ==
  IF ~(endswith(name, Str(".pdf")) \/ endswith(name, Str(".docx")))
  THEN [raised |-> "Unsupported file format. Please use PDF or DOCX."]
  ELSE IF files[name] = None \/ ~files[name].readable
  THEN [raised |-> IF endswith(name, Str(".pdf")) THEN "Error reading PDF"
                   ELSE "Error reading DOCX"]
  ELSE [returned |-> parse_result(files[name].text)]

\* The stages of main in the order of its statements.
StageOrder ==
  <<"parse_resume", "parse_jd", "extract_resume", "extract_jd", "compare",
    "score", "gaps", "learn">>
AfterStage ==
  [parse_resume |-> "parse_jd", parse_jd |-> "extract_resume",
   extract_resume |-> "extract_jd", extract_jd |-> "compare", compare |-> "score",
   score |-> "gaps", gaps |-> "learn", learn |-> "remove"]

\* The stages that work on the locals of main alone.
LocalStages == Range(StageOrder) \ {"parse_resume"}
StageSeeds(stage) ==
  IF stage \in {"extract_resume", "extract_jd"} THEN HashSeeds ELSE {0}

NewSession(resume_file, text) ==
  [pc |-> "check", resume_file |-> resume_file, jd_text |-> text,
   resume_data |-> None, jd_data |-> None, resume_skills |-> None,
   jd_skills |-> None, skill_comparison |-> None, match_result |-> None,
   gap_analysis |-> None, learning_path |-> None,
   stages |-> <<>>, displayed |-> None, error |-> None]

\* The locals after the stage the session is at has returned.
stage_done(r) ==
  [r EXCEPT !.stages = Append(r.stages, r.pc), !.pc = AfterStage[r.pc]]

\* The except branch of main: st.error, and nothing after it.
stage_raised(r, message) ==
  [r EXCEPT !.error = [message |-> "Error processing files", cause |-> message],
            !.pc = "stopped"]

\* One stage of main on its locals: the locals after it, and the in-place
\* operations it has made.
stage_output(r, seed, up) ==
  CASE r.pc = "parse_jd" ->
         [locals |-> stage_done([r EXCEPT !.jd_data = parse(r.jd_text)]),
          writes |-> jd_parser_writes]
    [] r.pc = "extract_resume" ->
         LET skills_iter == set_iter(normalized_skills(resume_skill_text(r.resume_data)), seed)
         IN  [locals |-> stage_done([r EXCEPT !.resume_skills = _categorize_skills(skills_iter)]),
              writes |-> skill_extractor_writes \o categorize_writes(skills_iter)]
    [] r.pc = "extract_jd" ->
         LET extracted == normalized_skills(get(r.jd_data, "raw_text", <<>>))
             required == required_union(r.jd_data, extracted)
             preferred == Range(get(r.jd_data, "preferred_skills", <<>>))
         IN  [locals |-> stage_done([r EXCEPT !.jd_skills =
                                        jd_skills_result(required, preferred, seed)]),
              writes |-> categorize_writes(set_iter(extracted, seed))
                           \o categorize_writes(set_iter(required \cup preferred, seed))]
    [] r.pc = "compare" ->
         [locals |-> stage_done([r EXCEPT !.skill_comparison =
                        compare_skills(get(r.resume_skills, "all_skills", <<>>),
                                       get(r.jd_skills, "required_skills", <<>>))]),
          writes |-> <<>>]
    [] r.pc = "score" ->
         [locals |-> stage_done([r EXCEPT !.match_result =
                        calculate_match_score(r.resume_data, r.jd_data, r.resume_skills,
                                              r.jd_skills, r.skill_comparison, up)]),
          writes |-> <<>>]
    [] r.pc = "gaps" ->
         [locals |-> stage_done([r EXCEPT !.gap_analysis =
                        analyze_gaps(r.skill_comparison, r.jd_data)]),
          writes |-> <<>>]
    [] r.pc = "learn" ->
         [locals |-> stage_done([r EXCEPT !.learning_path =
                        generate_learning_path(r.gap_analysis)]),
          writes |-> learning_path_writes(r.gap_analysis)]

PipelineIdle ==
  UNCHANGED <<pc, resume_file_text, jd_parser_text, completed, resume_data, jd_text,
              jd_data, resume_skills, jd_skills, skill_comparison, match_result,
              gap_analysis, learning_path, float_tie_up>>

InitApp ==
  /\ session \in [Sessions -> {NewSession(u, text) : u \in AppUploads, text \in AppJdTexts}]
  /\ tmp_files = [name \in TempNames |-> None]
  /\ settings = ReferenceData
  /\ float_tie_up \in BOOLEAN
  /\ pc = "app" /\ resume_file_text = <<>> /\ jd_text = <<>>
  /\ jd_parser_text = <<>> /\ completed = <<>>
  /\ resume_data = None /\ jd_data = None
  /\ resume_skills = None /\ jd_skills = None /\ skill_comparison = None
  /\ match_result = None /\ gap_analysis = None /\ learning_path = None

\* if analyze_button: the two checks, each ending the run with st.error.
CheckInputs(s) ==
  /\ session[s].pc = "check"
  /\ LET e == input_error(session[s].resume_file, session[s].jd_text)
     IN  session' = [session EXCEPT ![s] =
                       IF e = None THEN [@ EXCEPT !.pc = "save"]
                       ELSE [@ EXCEPT !.error = e, !.pc = "stopped"]]
  /\ UNCHANGED <<tmp_files, settings>>
  /\ PipelineIdle

\* The upload is written to /tmp under the name it was uploaded with.
SaveUpload(s) ==
  /\ session[s].pc = "save"
  /\ tmp_files' = [tmp_files EXCEPT ![session[s].resume_file.name] =
                     session[s].resume_file.content]
  /\ session' = [session EXCEPT ![s].pc = "parse_resume"]
  /\ UNCHANGED settings
  /\ PipelineIdle

\* parse_resume(temp_resume_path): reads the file that is in /tmp now.
ReadResume(s) ==
  /\ session[s].pc = "parse_resume"
  /\ LET out == parse_file(tmp_files, session[s].resume_file.name)
     IN  session' = [session EXCEPT ![s] =
                       IF "raised" \in DOMAIN out THEN stage_raised(@, out.raised)
                       ELSE stage_done([@ EXCEPT !.resume_data = out.returned])]
  /\ UNCHANGED <<tmp_files, settings>>
  /\ PipelineIdle

\* The stages from parse_job_description to generate_recommendations.
RunStage(s) ==
  /\ session[s].pc \in LocalStages
  /\ \E seed \in StageSeeds(session[s].pc) :
       \E out \in {stage_output(session[s], seed, float_tie_up)} :
         /\ session' = [session EXCEPT ![s] = out.locals]
         /\ settings' = tables_after(settings, out.writes)
  /\ UNCHANGED tmp_files
  /\ PipelineIdle

\* os.remove(temp_resume_path): raises when the file is not there.
RemoveTemp(s) ==
  /\ session[s].pc = "remove"
  /\ IF tmp_files[session[s].resume_file.name] = None
     THEN /\ session' = [session EXCEPT ![s] = stage_raised(@, "No such file or directory")]
          /\ UNCHANGED tmp_files
     ELSE /\ tmp_files' = [tmp_files EXCEPT ![session[s].resume_file.name] = None]
          /\ session' = [session EXCEPT ![s].pc = "display"]
  /\ UNCHANGED settings
  /\ PipelineIdle

\* display_results: the six results are shown.
DisplayResults(s) ==
  /\ session[s].pc = "display"
  /\ LET r == session[s]
     IN  session' = [session EXCEPT ![s] =
                       [r EXCEPT !.pc = "done",
                                 !.displayed =
                                    [match_result |-> r.match_result,
                                     skill_comparison |-> r.skill_comparison,
                                     gap_analysis |-> r.gap_analysis,
                                     learning_path |-> r.learning_path,
                                     resume_skills |-> r.resume_skills,
                                     jd_skills |-> r.jd_skills]]]
  /\ UNCHANGED <<tmp_files, settings>>
  /\ PipelineIdle

NextApp ==
  \E s \in Sessions :
    \/ CheckInputs(s)
    \/ SaveUpload(s)
    \/ ReadResume(s)
    \/ RunStage(s)
    \/ RemoveTemp(s)
    \/ DisplayResults(s)

SpecApp == InitApp /\ [][NextApp]_vars

\* A session has ended: its results are displayed, or an error has ended it.
Ended(r) == r.pc \in {"done", "stopped"}

\* What has to have happened for results to be displayed: a resume file, a
\* JD of stripped length 50 or more, every stage returned, in order.
AnalysisComplete(r) ==
  /\ r.resume_file # None
  /\ Len(strip(r.jd_text)) >= 50
  /\ r.stages = StageOrder

\* C15: results are displayed only for a session that was given a resume
\* file and a JD of stripped length 50 or more and whose stages have all
\* returned, in the order parse resume, parse JD, extract skills, compare,
\* score, analyze gaps, recommend, with no error reported; the results
\* displayed are the ones the stages returned; and a session that ends
\* otherwise has reported an error and displays no result.
C15_DisplayOnlyAfterAllStages ==
  \A s \in Sessions :
    LET r == session[s]
    IN  /\ r.displayed # None =>
             /\ AnalysisComplete(r)
             /\ r.error = None
             /\ r.displayed.match_result = r.match_result
             /\ r.displayed.learning_path = r.learning_path
             /\ None \notin {r.displayed.match_result, r.displayed.skill_comparison,
                             r.displayed.gap_analysis, r.displayed.learning_path,
                             r.displayed.resume_skills, r.displayed.jd_skills}
        /\ (Ended(r) /\ ~AnalysisComplete(r)) =>
             (r.error # None /\ r.displayed = None)
        /\ r.error # None => r.displayed = None

\* One session displays its results, while the other has ended with an
\* error: its text area held fewer than 50 characters besides blanks, or its
\* resume file could not be read.
C15_Witness ==
  \E s, o \in Sessions :
    /\ session[s].pc = "done"
    /\ session[s].displayed # None
    /\ session[s].displayed.match_result.overall_score > 0
    /\ session[o].pc = "stopped"
    /\ session[o].displayed = None
    /\ \/ /\ session[o].resume_file # None
          /\ Len(session[o].jd_text) >= 50
          /\ session[o].error = input_error(session[o].resume_file, session[o].jd_text)
       \/ /\ session[o].stages = <<>>
          /\ "cause" \in DOMAIN session[o].error
          /\ session[o].error.cause = "Error reading DOCX"

\* A session whose resume file can be read under its name and whose JD
\* passes the check.
ValidRequest(r) ==
  /\ r.resume_file # None
  /\ r.resume_file.content.readable
  /\ input_error(r.resume_file, r.jd_text) = None

\* C16: with two sessions running at once, each parses the resume it has
\* uploaded, and no session loses its file to the other: a valid request
\* reports no error.
C16_RequestsShareNoState ==
  \A s \in Sessions :
    LET r == session[s]
    IN  /\ r.resume_data # None =>
             r.resume_data.raw_text = r.resume_file.content.text
        /\ ValidRequest(r) => r.error = None

(***************************************************************************)
(* The learning recommender on its own: generate_learning_path on the      *)
(* priority orders the gap analyzer produces, and on orders whose items    *)
(* carry other skill names and other time strings.                         *)
(***************************************************************************)
MaxCritical == 6
MaxNice == 4
MaxTimes == 2

upper(s) == [i \in 1..Len(s) |-> UpperTable[s[i]]]

CatalogKeys == {LEARNING_RESOURCES[i].skill : i \in 1..Len(LEARNING_RESOURCES)}

\* The names a skill reaches the recommender with: the taxonomy names as
\* they are and as the gap analyzer title-cases them, the catalog keys in
\* lower and upper case, and names of no table.
LearnSkills ==
  Range(all_skills) \cup {title(s) : s \in Range(all_skills)}
    \cup CatalogKeys \cup {lower(k) : k \in CatalogKeys} \cup {upper(k) : k \in CatalogKeys}
    \cup {Str("Figma"), Str("Excel"), Str("Sql Server Admin")}

LearnTimes ==
  {"4-6 weeks", "2-4 weeks", "1-2 weeks", "2-3 weeks", "3 weeks", "a few months"}

LearnCritical ==
  <<Str("Python"), Str("Kubernetes"), Str("React"), Str("MySQL"), Str("Java"),
    Str("Terraform"), Str("Go")>>
LearnNice ==
  <<Str("Docker"), Str("Figma"), Str("Angular"), Str("AWS"), Str("Redis")>>

gaps_of(skills, priority) ==
  [i \in 1..Len(skills) |-> gap_item(skills[i], priority, "")]

\* Sequences of at most n time strings.
RECURSIVE TimeSeqs(_)
TimeSeqs(n) ==
  IF n = 0 THEN {<<>>}
  ELSE TimeSeqs(n - 1)
         \cup {Append(ts, time) : ts \in {x \in TimeSeqs(n - 1) : Len(x) = n - 1},
                                  time \in LearnTimes}

PriorityOrders ==
  {_prioritize_learning(gaps_of(Prefix(LearnCritical, c), "High"),
                        gaps_of(Prefix(LearnNice, n), "Medium")) :
     c \in 0..MaxCritical, n \in 0..MaxNice}
  \cup {<<priority_item(1, gap_item(skill, "High", ""), priority)>> :
          skill \in LearnSkills, priority \in {"Critical", "Nice-to-have"}}
  \cup {<<[rank |-> 1, skill |-> skill, priority |-> "Critical",
           category |-> _categorize_single_skill(skill), estimated_time |-> _estimate_learning_time(skill)]>> :
          skill \in LearnSkills}
  \cup {[i \in 1..Len(ts) |->
           [rank |-> i, skill |-> Str("Python"), priority |-> "Critical",
            category |-> _categorize_single_skill(Str("Python")),
            estimated_time |-> ts[i]]] :
          ts \in TimeSeqs(MaxTimes)}

InitLearn ==
  /\ pc = "learn"
  /\ gap_analysis \in {[priority_order |-> order] : order \in PriorityOrders}
  /\ resume_file_text = None /\ jd_parser_text = <<>> /\ completed = <<>>
  /\ resume_data = None /\ jd_text = None /\ jd_data = None
  /\ resume_skills = None /\ jd_skills = None /\ skill_comparison = None
  /\ match_result = None /\ learning_path = None
  /\ float_tie_up = FALSE
  /\ settings = ReferenceData /\ session = <<>> /\ tmp_files = <<>>

NextLearn == GenerateRecommendations

SpecLearn == InitLearn /\ [][NextLearn]_vars

LearnDone == pc = "done"

\* The bundle an item of the learning path carries.
BundleOf(item) == [courses |-> item.courses, practice |-> item.practice_resources]

\* The catalog key at position i is a substring of the skill or the skill
\* of the key, both in lower case.
Related(i, skill) ==
  \/ contains(lower(LEARNING_RESOURCES[i].skill), lower(skill))
  \/ contains(lower(skill), lower(LEARNING_RESOURCES[i].skill))

Catalog == 1..Len(LEARNING_RESOURCES)

\* C21: the bundle of every item of the learning path is the one of the
\* catalog key equal to the title-cased skill; with no such key, the one of
\* the first key, in catalog order, that contains or is contained in the
\* skill in lower case; with no such key either, the default bundle.  A
\* skill equal to a key ignoring case has that key's bundle, and the default
\* bundle comes only with no key in a substring relation with the skill.
C21_CourseResolution ==
  LearnDone =>
    \A k \in 1..Len(learning_path.learning_path) :
      LET skill == gap_analysis.priority_order[k].skill
          bundle == BundleOf(learning_path.learning_path[k])
          no_exact == \A i \in Catalog : LEARNING_RESOURCES[i].skill # title(skill)
      IN  /\ learning_path.learning_path[k].skill = skill
          /\ \A i \in Catalog :
               LEARNING_RESOURCES[i].skill = title(skill) =>
                 bundle = LEARNING_RESOURCES[i].resource
          /\ no_exact =>
               \A i \in Catalog :
                 (Related(i, skill) /\ \A j \in 1..(i - 1) : ~Related(j, skill)) =>
                   bundle = LEARNING_RESOURCES[i].resource
          /\ (no_exact /\ \A i \in Catalog : ~Related(i, skill)) =>
               bundle = DEFAULT_LEARNING_RESOURCE
          /\ \A i \in Catalog :
               lower(LEARNING_RESOURCES[i].skill) = lower(skill) =>
                 bundle = LEARNING_RESOURCES[i].resource
          /\ bundle = DEFAULT_LEARNING_RESOURCE =>
               \A i \in Catalog : ~Related(i, skill)

\* The path of 'Aws', as the gap analyzer title-cases AWS: no key equals
\* its title-cased form, and it carries the bundle of the key AWS.
C21_Witness ==
  /\ LearnDone
  /\ Len(learning_path.learning_path) = 1
  /\ learning_path.learning_path[1].skill = Str("Aws")
  /\ \E i \in Catalog :
       /\ LEARNING_RESOURCES[i].skill = Str("AWS")
       /\ BundleOf(learning_path.learning_path[1]) = LEARNING_RESOURCES[i].resource
       /\ BundleOf(learning_path.learning_path[1]) # DEFAULT_LEARNING_RESOURCE

\* The integers each time string holds.
TimeNumbers ==
  [time \in LearnTimes |->
     CASE time = "4-6 weeks" -> <<4, 6>>
       [] time = "2-4 weeks" -> <<2, 4>>
       [] time = "1-2 weeks" -> <<1, 2>>
       [] time = "2-3 weeks" -> <<2, 3>>
       [] time = "3 weeks" -> <<3>>
       [] time = "a few months" -> <<>>]

\* Twice the average of the integers of a time string, 2 * 2 with none.
twice_average(time) ==
  LET numbers == TimeNumbers[time]
  IN  IF numbers = <<>> THEN 2 * 2
      ELSE IF Len(numbers) = 1 THEN 2 * numbers[1]
      ELSE numbers[1] + numbers[2]

ItemTimes ==
  [k \in 1..Len(gap_analysis.priority_order) |->
     gap_analysis.priority_order[k].estimated_time]

\* C22 as stated: the total is the sum over the items of the average of
\* the integers of the item's time string, 2 for a string with none.
C22_TotalIsSumOfAverages ==
  LearnDone =>
    \E total \in 0..sum([k \in 1..Len(ItemTimes) |-> twice_average(ItemTimes[k])]) :
      /\ learning_path.estimated_total_time = ToString(total) \o " weeks"
      /\ 2 * total = sum([k \in 1..Len(ItemTimes) |-> twice_average(ItemTimes[k])])

\* C22: the total is the sum over the items of the average of the integers
\* of the item's time string rounded down to a whole number of weeks, 2 for
\* a string with none.
C22_TotalIsSumOfFloors ==
  LearnDone =>
    learning_path.estimated_total_time =
      ToString(sum([k \in 1..Len(ItemTimes) |-> twice_average(ItemTimes[k]) \div 2]))
        \o " weeks"

\* Two items of '2-3 weeks' and 'a few months': 2 and 2 weeks, while the
\* averages add up to 4.5.
C22_Witness ==
  /\ LearnDone
  /\ ItemTimes = <<"2-3 weeks", "a few months">>
  /\ learning_path.estimated_total_time = "4 weeks"

CriticalItems == SelectSeq(learning_path.learning_path, LAMBDA item : item.priority = "Critical")
NiceItems == SelectSeq(learning_path.learning_path, LAMBDA item : item.priority = "Nice-to-have")

\* The milestones are, in this order: 'Week 1-2' for the first Critical
\* item iff there is one, 'Week 3-4' iff there is more than one Critical
\* item, 'Week 5-6' iff there is a Nice-to-have item, naming its first two,
\* and 'Final' last.
MilestonesInOrder ==
  LET M == learning_path.milestones
      at(name) == {i \in 1..Len(M) : M[i].milestone = name}
  IN  /\ Len(M) <= 4
      /\ \A i \in 1..Len(M) : M[i].milestone \in {"Week 1-2", "Week 3-4", "Week 5-6", "Final"}
      /\ \A i, j \in 1..Len(M) : M[i].milestone = M[j].milestone => i = j
      /\ at("Final") = {Len(M)} /\ M # <<>>
      /\ M[Len(M)].goal = Str("Apply for the role with confidence")
      /\ (at("Week 1-2") # {}) = (CriticalItems # <<>>)
      /\ (at("Week 3-4") # {}) = (Len(CriticalItems) > 1)
      /\ (at("Week 5-6") # {}) = (NiceItems # <<>>)
      /\ \A i \in at("Week 1-2") :
           i = 1 /\ M[i].goal = Str("Master ") \o CriticalItems[1].skill
      /\ \A i \in at("Week 3-4") : i = 2
      /\ \A i \in at("Week 5-6") :
           /\ i = Len(M) - 1
           /\ M[i].action =
                Str("Learn ") \o NiceItems[1].skill
                  \o (IF Len(NiceItems) > 1 THEN Str(", ") \o NiceItems[2].skill ELSE <<>>)

\* C23 as stated: every learning path has the closing milestone.
C23_ClosingAlwaysPresent == LearnDone => MilestonesInOrder

\* C23: a learning path with no item has no milestone; any other has at
\* most 4 milestones in the fixed order, the closing milestone last.
C23_MilestonesOfNonEmptyPath ==
  LearnDone =>
    IF learning_path.learning_path = <<>> THEN learning_path.milestones = <<>>
    ELSE MilestonesInOrder

\* Five Critical and three Nice-to-have items: four milestones, the third
\* naming Docker and Figma only.
C23_Witness ==
  /\ LearnDone
  /\ Len(CriticalItems) = 5 /\ Len(NiceItems) = 3
  /\ Len(learning_path.milestones) = 4
  /\ learning_path.milestones[3].action = Str("Learn Docker, Figma")

\* C30: a taxonomy skill that is no key of the catalog never has the bundle
\* of a key that is another skill of the taxonomy.
C30_NoOtherSkillsCourses ==
  LearnDone =>
    \A k \in 1..Len(learning_path.learning_path) :
      \A c \in Range(all_skills) \ CatalogKeys :
        gap_analysis.priority_order[k].skill \in {c, title(c)} =>
          \A i \in Catalog :
            (LEARNING_RESOURCES[i].skill \in Range(all_skills) \ {c}) =>
              BundleOf(learning_path.learning_path[k]) # LEARNING_RESOURCES[i].resource

(***************************************************************************)
(* extract_from_text on texts that name skills of the taxonomy as tokens:  *)
(* one skill alone, between blanks or between words, and lists of skills.  *)
(***************************************************************************)
MaxListed == 3

ListedSkills ==
  <<Str("TypeScript"), Str("Python"), Str("iOS"), Str("AWS"), Str("Azure"), Str("Java")>>

\* The lists of at most n different skills of ListedSkills.
RECURSIVE SkillLists(_)
SkillLists(n) ==
  IF n = 0 THEN {<<>>}
  ELSE SkillLists(n - 1)
         \cup {Append(l, s) : l \in {x \in SkillLists(n - 1) : Len(x) = n - 1},
                              s \in Range(ListedSkills)}

TokenTexts ==
  {s : s \in Range(all_skills)}
    \cup {Str(" ") \o s \o Str(" ") : s \in Range(all_skills)}
    \cup {Str("with ") \o s \o Str(" daily") : s \in Range(all_skills)}
    \cup {join(Str(" "), l) : l \in {x \in SkillLists(MaxListed) :
                                       \A i, j \in 1..Len(x) : x[i] = x[j] => i = j}}

InitToken ==
  /\ pc = "extract_resume"
  /\ resume_file_text = None /\ jd_parser_text = <<>> /\ completed = <<>>
  /\ resume_data \in {[raw_text |-> t, sections |-> <<>>] : t \in TokenTexts}
  /\ jd_text = None /\ jd_data = None /\ resume_skills = None /\ jd_skills = None
  /\ skill_comparison = None /\ match_result = None
  /\ gap_analysis = None /\ learning_path = None
  /\ float_tie_up = FALSE
  /\ settings = ReferenceData /\ session = <<>> /\ tmp_files = <<>>

NextToken == ExtractResumeSkills

SpecToken == InitToken /\ [][NextToken]_vars

BucketKeys == CategoryNames \cup {"other_technical"}

\* The category whose list in the taxonomy holds the skill.
TaxonomyCategories(skill) ==
  {SKILL_CATEGORIES[i].category :
     i \in {j \in 1..Len(SKILL_CATEGORIES) : skill \in Range(SKILL_CATEGORIES[j].skills)}}

StrictlyAscending(l) == \A i \in 1..(Len(l) - 1) : str_less(l[i], l[i + 1])

\* C24: in the result of extract_from_text every found skill is in exactly
\* one bucket, the one of its taxonomy category or other_technical when it
\* has none; the buckets together hold the skills of all_skills; and every
\* bucket and all_skills are in ascending order without duplicates.
C24_BucketsPartitionSkills ==
  ExtractDone =>
    /\ Range(resume_skills.all_skills) = normalized_skills(ExtractText)
    /\ \A s \in Range(resume_skills.all_skills) :
         {key \in BucketKeys : s \in Range(resume_skills[key])}
           = (IF TaxonomyCategories(s) = {} THEN {"other_technical"}
              ELSE TaxonomyCategories(s))
    /\ UNION {Range(resume_skills[key]) : key \in BucketKeys}
         = Range(resume_skills.all_skills)
    /\ \A key \in BucketKeys \cup {"all_skills"} : StrictlyAscending(resume_skills[key])

\* 'iOS Python Java': two languages in their bucket in ascending order, iOS
\* in the bucket mobile, and all_skills in code point order.
C24_Witness ==
  /\ ExtractDone
  /\ ExtractText = Str("iOS Python Java")
  /\ resume_skills.programming_languages = <<Str("Java"), Str("Python")>>
  /\ resume_skills.mobile = <<Str("iOS")>>
  /\ resume_skills.all_skills = <<Str("Java"), Str("Python"), Str("iOS")>>

\* The text is a skill alone or a skill between two blanks.
StandaloneIn(s, text) == text = s \/ text = Str(" ") \o s \o Str(" ")

\* C28: a text that is a skill name of the taxonomy alone, or the name
\* between blanks, has the skill in all_skills.
C28_StandaloneSkillFound ==
  ExtractDone =>
    \A s \in Range(all_skills) :
      StandaloneIn(s, ExtractText) => s \in Range(resume_skills.all_skills)

\* C25: no skill is at two positions of priority_order: a missing skill is
\* listed as a Critical item or as a Nice-to-have item, never as both.
C25_NoSkillTwice ==
  pc = "learn" =>
    \A i, j \in 1..Len(gap_analysis.priority_order) :
      gap_analysis.priority_order[i].skill = gap_analysis.priority_order[j].skill
        => i = j

\* C26: in the pipeline the required skills that the resume is compared
\* with are the required skills that mark a gap as critical, and every
\* missing skill is reported in critical_gaps.
C26_SameRequiredSet ==
  gap_analysis # None =>
    /\ lower_set(jd_skills.required_skills) = lower_set(jd_data.required_skills)
    /\ \A k \in 1..Len(skill_comparison.missing_skills) :
         \E g \in 1..Len(gap_analysis.critical_gaps) :
           lower(gap_analysis.critical_gaps[g].skill)
             = lower(skill_comparison.missing_skills[k])

\* A line of at most 8 words in which one of the words occurs, ignoring case.
IsHeaderLine(line, words) ==
  /\ word_count(line) <= 8
  /\ \E w \in 1..Len(words) : contains(lower(line), Str(words[w]))

RequiredHeaderWords == <<"required", "must have", "essential", "qualifications">>
PreferredHeaderWords == <<"preferred", "nice to have", "bonus", "plus">>

\* C29: with a required header line and, after it, a preferred header line
\* that no required header line follows, a skill that the JD names only in
\* the lines after the preferred header is not in required_skills.
C29_RequiredEndsAtPreferred ==
  JdDone =>
    LET lines == split_lines(jd_text)
    IN  \A r, p \in 1..Len(lines) :
          (/\ r < p
           /\ IsHeaderLine(lines[r], RequiredHeaderWords)
           /\ IsHeaderLine(lines[p], PreferredHeaderWords)
           /\ \A k \in p..Len(lines) : ~IsHeaderLine(lines[k], RequiredHeaderWords))
            => \A s \in Range(SkillsNamedIn(join(Str("\n"), SubSeq(lines, p + 1, Len(lines))))) :
                 s \notin Range(SkillsNamedIn(join(Str("\n"), SubSeq(lines, 1, p))))
                   => s \notin Range(jd_data.required_skills)

\* The session has written its upload to /tmp: it has displayed its
\* results, or the except branch of main has ended it.
HasWritten(r) ==
  \/ r.pc = "done"
  \/ r.pc = "stopped" /\ "cause" \in DOMAIN r.error

\* The session is between its write to /tmp and its os.remove.
HoldsTemp(r) == r.pc \in Range(StageOrder) \cup {"remove"}

\* C27: once a request that has written its temporary file has ended, with
\* its results displayed or with an exception, the file is not in /tmp,
\* unless another running request has written a file of the same name.
C27_TempFileRemoved ==
  \A s \in Sessions :
    (Ended(session[s]) /\ HasWritten(session[s])) =>
      \/ tmp_files[session[s].resume_file.name] = None
      \/ \E o \in Sessions \ {s} :
           /\ HoldsTemp(session[o])
           /\ session[o].resume_file.name = session[s].resume_file.name

====
